---- MODULE Spec2Model ----
(***************************************************************************)
(* Weyvelength signaling server: the session registry, the membership      *)
(* protocol (join_session_inner / leave_session_inner), the signal router  *)
(* and the stream lifecycle, as a state machine.                           *)
(*                                                                         *)
(* Granularity.  One step is one access to a shared map (DashMap get /     *)
(* insert / remove / remove_if) or one critical section of a session's     *)
(* inner mutex: no suspension point lies inside a critical section.  The   *)
(* handlers of service/sessions.rs and service/streams.rs run their state  *)
(* changes between `state.lock().unwrap()` and the end of the block; that  *)
(* lock is stateLock.  service/signals.rs never takes it, so its steps     *)
(* interleave with the steps of a handler that holds it.                   *)
(***************************************************************************)
EXTENDS Integers, Sequences, FiniteSets, TLC

\* ---------------------------------------------------------------- bounds
MaxOps == 6          \* RPC invocations / stream tasks started in one behaviour
GeneralOps == 3      \* of them, in a behaviour that starts from the empty server
MaxCreates == 2      \* session records allocated by CreateSession
MaxActive == 2       \* invocations and stream cleanups in progress at once
ScenarioCalls == 3   \* invocations started in a behaviour that starts from a prepared lobby
MaxChannels == 3     \* oneshot channels created by the client in one behaviour
MaxCommands == 2     \* client commands in progress at once
Workers == 2         \* worker threads of the server's runtime

\* ------------------------------------------------------------- constants
GLOBAL_SESSION_ID == "__global__"
BROADCAST_CAPACITY == 256
SESSION_MIN_MEMBERS == 2
SESSION_MAX_MEMBERS == 16
LobbyCodes == {"LOBBYAAA", "LOBBYBBB"}
SessionIds == {GLOBAL_SESSION_ID} \cup LobbyCodes
Users == {"alice", "bob", "carol"}
ReqMaxMembers == {0, 3}       \* max_members values a CreateSession request carries
RequestedMax == {0, 1, 2, 3, 16, 17}   \* and those of a behaviour that only creates
NoUser == ""                  \* String::new()
NoSession == "-"              \* no entry in user_session_index
NoObj == -1                   \* no entry in the session registry
GlobalObj == 0
Objs == 0..MaxCreates
ProcIds == 1..MaxOps
NoPipe == 0
Poisoned == -1                \* std::sync::Mutex poisoned by a panic under the lock

VARIABLES
    sessions,            \* ServerState.sessions: session id -> record (Arc<SessionData>)
    heap,                \* the SessionData records, by allocation number
    user_session_index,  \* ServerState.user_session_index
    global_stream_refs,  \* ServerState.global_stream_refs
    stateLock,           \* the mutex taken by state.lock(): 0 free, p held, Poisoned
    procs,               \* RPC invocations and spawned stream tasks
    out,                 \* per stream: the signals / chat messages delivered to its client
    recording,           \* whether a finished invocation's response is kept for inspection
    session_update_tx,   \* ServerState.session_update_tx: the unit values it has accepted
    global_members_tx,   \* ServerState.global_members_tx: the unit values it has accepted
    app,                 \* the client's AppState: cancel notifiers, oneshot channels, commands
    locks                \* registry guards and session mutexes held, tasks on worker threads

vars == <<sessions, heap, user_session_index, global_stream_refs, stateLock,
          procs, out, recording, session_update_tx, global_members_tx, app, locks>>

\* ------------------------------------------------------------ data types
NoSenders == [u \in Users |-> NoPipe]

\* tx is the session's broadcast channel: every ChatMessage it has accepted, the
\* last BROADCAST_CAPACITY of which it retains.
NoData == [id |-> "", is_public |-> FALSE, max_members |-> 0, tx |-> <<>>, host |-> NoUser,
           members |-> {}, signal_senders |-> NoSenders]

SessionData(id, is_public, max_members, host) ==
    [id |-> id, is_public |-> is_public, max_members |-> max_members, tx |-> <<>>,
     host |-> host, members |-> {}, signal_senders |-> NoSenders]

\* ChatMessage { username, content, timestamp }: the timestamp is the clock's
\* reading at the send and is not modelled.
ChatMessage(username, content) == [username |-> username, content |-> content]

NoMessage == ChatMessage("", "")

Signal(kind, from_user, to_user, session_id, payload) ==
    [kind |-> kind, from_user |-> from_user, to_user |-> to_user,
     session_id |-> session_id, payload |-> payload]

NoSignal == Signal("", "", "", "", "")

FreeProc ==
    [op |-> "", user |-> NoUser, sid |-> "", pc |-> "free",
     old_id |-> NoSession, obj |-> NoObj,
     was_host |-> FALSE, was_public |-> FALSE,
     senders |-> {}, new_host |-> NoUser, host_senders |-> {},
     signal |-> NoSignal, tx |-> NoPipe,
     msg |-> NoMessage, since |-> 0, next |-> 0, lagged |-> FALSE, requested |-> 0,
     existing_peers |-> {}, host |-> NoUser, max_members |-> 0,
     candidates |-> {}, infos |-> <<>>, members |-> {},
     result |-> ""]

\* A finished invocation: its locals are gone; what it was and what it returned
\* is kept when responses are recorded.
Finished(r, result) ==
    IF recording
    THEN [FreeProc EXCEPT !.op = r.op, !.user = r.user, !.sid = r.sid,
                          !.pc = "done", !.result = result,
                          !.existing_peers = r.existing_peers, !.host = r.host,
                          !.max_members = r.max_members, !.signal = r.signal,
                          !.msg = r.msg, !.next = r.next, !.was_host = r.was_host,
                          !.requested = r.requested, !.infos = r.infos,
                          !.members = r.members]
    ELSE [FreeProc EXCEPT !.pc = "done"]

\* The values of a signal_senders map: HashMap::values().
SenderValues(o) == {heap[o].signal_senders[u] : u \in Users} \ {NoPipe}

\* The senders of everybody but `username`: iter().filter(|(k, _)| k != username).
SendersExcept(o, username) ==
    {heap[o].signal_senders[u] : u \in Users \ {username}} \ {NoPipe}

\* ------------------------------------------------- client: state.rs
\* StreamKind, in the order cancel_all_streams goes through it.
StreamKinds == <<"Global", "Signals", "SessionUpdates", "GlobalMembers", "SessionMessages">>
Kinds == {StreamKinds[i] : i \in 1..Len(StreamKinds)}
Channels == 1..MaxChannels
Commands == 1..MaxCommands
NoSender == 0                 \* Option::None in a kind's cancel_tx

\* A oneshot channel: `state` is "none" before oneshot::channel() made it, "open"
\* while its Sender is alive and unused, "sent" after tx.send(()), "dropped"
\* after the Sender was dropped unused; `task` is whether a stream task holds its
\* Receiver.  The Receiver completes when the state is "sent" or "dropped".
NoChannel == [state |-> "none", kind |-> "", task |-> FALSE]

\* A command that is not running.  `overlapped` records, for the property about
\* cancel_all_streams, that a reset_stream installed a notifier while it ran.
IdleCommand == [op |-> "", kind |-> "", pc |-> "idle", rx |-> NoSender, todo |-> <<>>,
                overlapped |-> FALSE]

\* AppState::new(): every cancel_tx is Mutex::new(None).
AppNew == [cancel_tx |-> [k \in Kinds |-> NoSender],
           channels |-> [n \in Channels |-> NoChannel],
           commands |-> [c \in Commands |-> IdleCommand]]

\* No task holds a registry guard or a session mutex or runs on a worker.
\* ref: the session id a task holds a registry Ref (shard read guard) on; held:
\* the records whose inner mutex it holds; stage and at: how far it is in taking
\* and releasing them and for which step; running: the tasks on a worker thread.
NoGuards == [ref |-> [p \in ProcIds |-> NoSession],
             held |-> [p \in ProcIds |-> {}],
             stage |-> [p \in ProcIds |-> ""],
             at |-> [p \in ProcIds |-> ""],
             running |-> {}]

\* ----------------------------------------------------------------- Init
EmptyServer ==
    /\ sessions = [s \in SessionIds |-> IF s = GLOBAL_SESSION_ID THEN GlobalObj ELSE NoObj]
    /\ heap = [o \in Objs |-> IF o = GlobalObj
                              THEN SessionData(GLOBAL_SESSION_ID, FALSE, 0, NoUser)
                              ELSE NoData]
    /\ user_session_index = [u \in Users |-> NoSession]
    /\ global_stream_refs = [u \in Users |-> 0]
    /\ stateLock = 0
    /\ procs = [p \in ProcIds |-> FreeProc]
    /\ out = [p \in ProcIds |-> <<>>]
    /\ session_update_tx = 0
    /\ global_members_tx = 0

Init == EmptyServer /\ recording = FALSE /\ app = AppNew /\ locks = NoGuards

\* ------------------------------------------------------------- plumbing
\* A task that is neither finished nor a stream waiting in its forwarding loop.
Active(q) == procs[q].pc \notin {"free", "done", "sig_open", "msg_open", "upd_open", "gm_open"}

CanStart == Cardinality({q \in ProcIds : Active(q)}) < MaxActive

\* The next invocation takes the lowest unused slot.
Fresh(p) ==
    /\ procs[p].pc = "free"
    /\ \A q \in ProcIds : q < p => procs[q].pc # "free"
    /\ CanStart

At(p, pc) == procs[p].pc = pc

SetProc(p, r) == procs' = [procs EXCEPT ![p] = r]

\* A state.lock() that never waits: the handlers without mutual exclusion.
StateLockNeverWaits == TRUE

\* state.lock(): blocks while another task holds the mutex.
StateLockFree == stateLock \in {0, Poisoned}

\* The guard's drop at the end of the block (a poisoned mutex stays poisoned).
Unlocked(p) == IF stateLock = p THEN 0 ELSE stateLock

\* Pipes that deliver after their stream has closed.
FanoutToClosed(targets, sig) ==
    out' = [q \in ProcIds |-> IF q \in targets THEN Append(out[q], sig) ELSE out[q]]

\* tx.send(sig) on every pipe of `targets`: the bridge task of a stream forwards
\* what its pipe receives while its client is connected; a pipe whose task has
\* left the loop delivers nothing.
Fanout(targets, sig) ==
    out' = [q \in ProcIds |->
              IF q \in targets /\ procs[q].pc = "sig_open"
              THEN Append(out[q], sig) ELSE out[q]]

\* The live receivers of the two notifiers: the tasks of the StreamSessionUpdates
\* and StreamGlobalMembers streams, from their subscribe() to their return.
UpdateReceivers ==
    {q \in ProcIds : procs[q].op = "StreamSessionUpdates" /\ procs[q].pc \notin {"free", "done"}}

MembersReceivers ==
    {q \in ProcIds : procs[q].op = "StreamGlobalMembers" /\ procs[q].pc \notin {"free", "done"}}

\* broadcast::Sender::send(()): the value is accepted when the channel has a
\* receiver; with none send returns Err, which every caller ignores.
Notify(tx, receivers) == IF receivers # {} THEN tx + 1 ELSE tx

\* helpers.rs 35-38: notify_sessions_changed, called when the session is public.
notify_sessions_changed(is_public) ==
    session_update_tx' = IF is_public THEN Notify(session_update_tx, UpdateReceivers)
                         ELSE session_update_tx

\* A DashMap Ref (shard read guard) on `sid` is held by a join_session_inner
\* between its members.insert and its index insert (session.rs 134-149).
RefHeld(sid) == \E q \in ProcIds : procs[q].pc = "join_index_insert" /\ procs[q].sid = sid


\* --------------------------------------------- session.rs: lobby codes
\* LOBBY_CODE_CHARS, and the character a byte of the uuid selects:
\* LOBBY_CODE_CHARS[(b % 36) as usize].
LOBBY_CODE_CHARS ==
    <<"A", "B", "C", "D", "E", "F", "G", "H", "I", "J", "K", "L", "M",
      "N", "O", "P", "Q", "R", "S", "T", "U", "V", "W", "X", "Y", "Z",
      "0", "1", "2", "3", "4", "5", "6", "7", "8", "9">>

LobbyCodeChar(b) == LOBBY_CODE_CHARS[(b % 36) + 1]

\* bytes.as_bytes()[..8].iter().map(..).collect(): the candidate of a uuid.
Candidate(bytes) == [i \in 1..8 |-> LobbyCodeChar(bytes[i])]

\* A generator that does not look at the registry.
AnyLobbyCode == LobbyCodes

\* generate_lobby_code: a candidate is drawn until one is not a key of the registry.
generate_lobby_code == {code \in LobbyCodes : sessions[code] = NoObj}

\* Arc::new(SessionData {..}): the next unused record.
NewObj(o) ==
    /\ o \in Objs \ {GlobalObj}
    /\ heap[o].id = ""
    /\ \A q \in Objs \ {GlobalObj} : q < o => heap[q].id # ""

\* req.max_members.max(2)
ClampMaxMembers(req_max) == IF req_max > 2 THEN req_max ELSE 2

\* A JoinSession without the capacity check.
SessionNeverFull(o) == FALSE

\* session.max_members > 0 && session.members.len() >= session.max_members
SessionFull(o) == heap[o].max_members > 0 /\ Cardinality(heap[o].members) >= heap[o].max_members

\* A full session that answers OK.
FullJoinAccepted(r) == Finished(r, "OK")

\* Line 88: Err(Status::resource_exhausted("Session is full")).
ResourceExhausted(r) == Finished(r, "ResourceExhausted")

\* ------------------------------------------ sessions.rs: CreateSession
handle_create_session(p, username, is_public, req_max) ==
    /\ Fresh(p)
    /\ StateLockFree
    /\ LET r == [FreeProc EXCEPT !.op = "CreateSession", !.user = username,
                                 !.requested = req_max] IN
       IF stateLock = Poisoned
       THEN /\ SetProc(p, Finished(r, "Panic"))
            /\ UNCHANGED <<sessions, heap, stateLock>>
       ELSE \E code \in generate_lobby_code, o \in Objs :
              /\ NewObj(o)
              /\ sessions' = [sessions EXCEPT ![code] = o]
              /\ heap' = [heap EXCEPT
                            ![o] = SessionData(code, is_public, ClampMaxMembers(req_max), username)]
              /\ stateLock' = p
              /\ SetProc(p, [r EXCEPT !.sid = code, !.pc = "join_index_remove",
                                      !.was_public = is_public,
                                      !.max_members = ClampMaxMembers(req_max)])
    /\ UNCHANGED <<user_session_index, global_stream_refs, out, recording, app, locks, session_update_tx, global_members_tx>>

\* Lines 50-72: the lock is released, the session list is notified, the response built.
create_return(p) ==
    /\ At(p, "create_return")
    /\ stateLock' = Unlocked(p)
    /\ SetProc(p, Finished([procs[p] EXCEPT !.host = procs[p].user], "OK"))
    /\ notify_sessions_changed(procs[p].was_public)
    /\ UNCHANGED <<sessions, heap, user_session_index, global_stream_refs, out, recording, app, locks, global_members_tx>>

\* -------------------------------------------- sessions.rs: JoinSession
\* Lines 80-90: lock, look the session up, reject a full one.
handle_join_session(p, username, session_id) ==
    /\ Fresh(p)
    /\ StateLockFree
    /\ LET r == [FreeProc EXCEPT !.op = "JoinSession", !.user = username, !.sid = session_id] IN
       IF stateLock = Poisoned
       THEN /\ SetProc(p, Finished(r, "Panic"))
            /\ UNCHANGED stateLock
       ELSE IF sessions[session_id] = NoObj
       THEN /\ SetProc(p, Finished(r, "NotFound"))
            /\ UNCHANGED stateLock
       ELSE IF SessionFull(sessions[session_id])
       THEN /\ SetProc(p, ResourceExhausted(r))
            /\ UNCHANGED stateLock
       ELSE /\ SetProc(p, [r EXCEPT !.pc = "join_index_remove"])
            /\ stateLock' = p
    /\ UNCHANGED <<sessions, heap, user_session_index, global_stream_refs, out, recording, app, locks, session_update_tx, global_members_tx>>

\* A peer list that is not filtered.
AllMembers(o, username) == heap[o].members

\* Lines 96-101: members.iter().filter(|m| *m != &req.username).
ExistingPeers(o, username) == heap[o].members \ {username}

\* Lines 95-111: the response is read from the session; unwrap() panics when the
\* session is no longer in the registry, which poisons the state mutex.
join_snapshot(p) ==
    /\ At(p, "join_snapshot")
    /\ LET r == procs[p]
           o == sessions[r.sid] IN
       IF o = NoObj
       THEN /\ SetProc(p, Finished(r, "Panic"))
            /\ stateLock' = IF stateLock = p THEN Poisoned ELSE stateLock
            /\ UNCHANGED session_update_tx
       ELSE /\ SetProc(p, [r EXCEPT !.pc = "join_fanout",
                                    !.existing_peers = ExistingPeers(o, r.user),
                                    !.host = heap[o].host,
                                    !.was_public = heap[o].is_public,
                                    !.max_members = heap[o].max_members])
            /\ stateLock' = Unlocked(p)
            /\ notify_sessions_changed(heap[o].is_public)
    /\ UNCHANGED <<sessions, heap, user_session_index, global_stream_refs, out, recording, app, locks, global_members_tx>>

\* Lines 113-151: notify, then lock again and send MemberJoined to every sender
\* registered in the session now.
join_fanout(p) ==
    /\ At(p, "join_fanout")
    /\ StateLockFree
    /\ LET r == procs[p]
           o == sessions[r.sid] IN
       IF stateLock = Poisoned
       THEN /\ SetProc(p, Finished(r, "Panic"))
            /\ UNCHANGED out
       ELSE /\ Fanout(IF o = NoObj THEN {} ELSE SenderValues(o),
                      Signal("MemberJoined", r.user, "", r.sid, r.user))
            /\ SetProc(p, Finished(r, "OK"))
    /\ UNCHANGED <<sessions, heap, user_session_index, global_stream_refs, stateLock, recording, app, locks, session_update_tx, global_members_tx>>

\* --------------------------------------- session.rs: join_session_inner
\* Line 120: user_session_index.remove(username).
join_index_remove(p) ==
    /\ At(p, "join_index_remove")
    /\ LET r == procs[p]
           old_id == user_session_index[r.user] IN
       /\ user_session_index' = [user_session_index EXCEPT ![r.user] = NoSession]
       /\ SetProc(p, [r EXCEPT !.old_id = old_id,
                               !.pc = IF old_id = NoSession THEN "join_target_lock"
                                      ELSE "join_old_lock"])
    /\ UNCHANGED <<sessions, heap, global_stream_refs, stateLock, out, recording, app, locks, session_update_tx, global_members_tx>>

\* Line 127: is_empty && old_id != GLOBAL_SESSION_ID.
JoinReaps(is_empty, old_id) == is_empty /\ old_id # GLOBAL_SESSION_ID

\* An auto-leave that leaves the user in the previous session's members.
join_old_lock_keeps_member(p) ==
    /\ At(p, "join_old_lock")
    /\ SetProc(p, [procs[p] EXCEPT !.pc = "join_target_lock"])
    /\ UNCHANGED <<sessions, heap, user_session_index, global_stream_refs, stateLock, out, recording, app, locks, session_update_tx, global_members_tx>>

\* Lines 121-126: the previous session, under its inner mutex.
join_old_lock(p) ==
    /\ At(p, "join_old_lock")
    /\ LET r == procs[p]
           o == sessions[r.old_id] IN
       IF o = NoObj
       THEN /\ SetProc(p, [r EXCEPT !.pc = "join_target_lock"])
            /\ UNCHANGED heap
       ELSE LET members == heap[o].members \ {r.user}
                is_empty == members = {} IN
            /\ heap' = [heap EXCEPT ![o].members = members]
            /\ SetProc(p, [r EXCEPT !.pc = IF JoinReaps(is_empty, r.old_id)
                                           THEN "join_old_reap" ELSE "join_target_lock"])
    /\ UNCHANGED <<sessions, user_session_index, global_stream_refs, stateLock, out, recording, app, locks, session_update_tx, global_members_tx>>

\* Lines 127-130: state.sessions.remove(&old_id).
join_old_reap(p) ==
    /\ At(p, "join_old_reap")
    /\ ~RefHeld(procs[p].old_id)
    /\ sessions' = [sessions EXCEPT ![procs[p].old_id] = NoObj]
    /\ SetProc(p, [procs[p] EXCEPT !.pc = "join_target_lock"])
    /\ UNCHANGED <<heap, user_session_index, global_stream_refs, stateLock, out, recording, app, locks, session_update_tx, global_members_tx>>

\* Lines 134-144: the target session; Err when it is not in the registry.
join_target_lock(p) ==
    /\ At(p, "join_target_lock")
    /\ LET r == procs[p]
           o == sessions[r.sid] IN
       IF o = NoObj
       THEN /\ SetProc(p, Finished(r, IF r.op = "CreateSession" THEN "Internal" ELSE "NotFound"))
            /\ stateLock' = Unlocked(p)
            /\ UNCHANGED heap
       ELSE /\ heap' = [heap EXCEPT ![o].members = @ \cup {r.user}]
            /\ SetProc(p, [r EXCEPT !.pc = "join_index_insert"])
            /\ UNCHANGED stateLock
    /\ UNCHANGED <<sessions, user_session_index, global_stream_refs, out, recording, app, locks, session_update_tx, global_members_tx>>

\* Lines 146-149: user_session_index.insert(username, session_id).
join_index_insert(p) ==
    /\ At(p, "join_index_insert")
    /\ LET r == procs[p] IN
       /\ user_session_index' = [user_session_index EXCEPT ![r.user] = r.sid]
       /\ SetProc(p, [r EXCEPT !.pc = IF r.op = "CreateSession" THEN "create_return"
                                      ELSE "join_snapshot"])
    /\ UNCHANGED <<sessions, heap, global_stream_refs, stateLock, out, recording, app, locks, session_update_tx, global_members_tx>>


\* ------------------------------------------- sessions.rs: LeaveSession
\* Lines 160-193: lock; a user who is not in the session's members returns at
\* once; otherwise was_host, the senders of the others and was_public are read.
handle_leave_session(p, username, session_id) ==
    /\ Fresh(p)
    /\ StateLockFree
    /\ LET r == [FreeProc EXCEPT !.op = "LeaveSession", !.user = username, !.sid = session_id]
           o == sessions[session_id] IN
       IF stateLock = Poisoned
       THEN /\ SetProc(p, Finished(r, "Panic"))
            /\ UNCHANGED stateLock
       ELSE IF o = NoObj \/ username \notin heap[o].members
       THEN /\ SetProc(p, Finished(r, "OK"))
            /\ UNCHANGED stateLock
       ELSE /\ SetProc(p, [r EXCEPT !.pc = "leave_gate",
                                    !.was_host = (heap[o].host = username),
                                    !.senders = SendersExcept(o, username),
                                    !.was_public = heap[o].is_public])
            /\ stateLock' = p
    /\ UNCHANGED <<sessions, heap, user_session_index, global_stream_refs, out, recording, app, locks, session_update_tx, global_members_tx>>

\* Lines 196-212: after leave_session_inner, when the leaver was the host and the
\* session still has a member, members.first() becomes the host; the lock is released.
leave_migrate(p) ==
    /\ At(p, "leave_migrate")
    /\ LET r == procs[p]
           o == sessions[r.sid] IN
       IF r.was_host /\ o # NoObj /\ heap[o].members # {}
       THEN \E new_host \in heap[o].members :
              /\ heap' = [heap EXCEPT ![o].host = new_host]
              /\ SetProc(p, [r EXCEPT !.pc = "leave_fan_left", !.new_host = new_host,
                                      !.host_senders = SenderValues(o)])
       ELSE /\ SetProc(p, [r EXCEPT !.pc = "leave_fan_left"])
            /\ UNCHANGED heap
    /\ stateLock' = Unlocked(p)
    /\ notify_sessions_changed(procs[p].was_public)
    /\ UNCHANGED <<sessions, user_session_index, global_stream_refs, out, recording, app, locks, global_members_tx>>

\* Lines 214-228: notify the session list, send MemberLeft to the senders read
\* before the leave.
leave_fan_left(p) ==
    /\ At(p, "leave_fan_left")
    /\ LET r == procs[p] IN
       /\ Fanout(r.senders, Signal("MemberLeft", r.user, "", r.sid, r.user))
       /\ SetProc(p, IF r.new_host # NoUser THEN [r EXCEPT !.pc = "leave_fan_host"]
                     ELSE Finished(r, "OK"))
    /\ UNCHANGED <<sessions, heap, user_session_index, global_stream_refs, stateLock, recording, app, locks, session_update_tx, global_members_tx>>

\* Lines 230-249: send HostChanged when the host migrated.
leave_fan_host(p) ==
    /\ At(p, "leave_fan_host")
    /\ LET r == procs[p] IN
       /\ Fanout(r.host_senders, Signal("HostChanged", "", "", r.sid, r.new_host))
       /\ SetProc(p, Finished(r, "OK"))
    /\ UNCHANGED <<sessions, heap, user_session_index, global_stream_refs, stateLock, recording, app, locks, session_update_tx, global_members_tx>>

\* -------------------------------------- session.rs: leave_session_inner
\* Where the caller of leave_session_inner goes on. `some` is whether it returned
\* Some(LeaveInfo); only the signal stream's cleanup reads the result.
AfterLeave(r, some) ==
    CASE r.op = "LeaveSession" -> [r EXCEPT !.pc = "leave_migrate"]
      [] r.op = "StreamMessages" -> [r EXCEPT !.pc = "msg_release"]
      [] OTHER -> IF some THEN [r EXCEPT !.pc = "sig_fan_left"] ELSE Finished(r, "closed")

\* The LeaveInfo is kept by the one caller that uses it (signals.rs 112-117).
KeepsInfo(r) == r.op = "StreamSignals"

\* A gate that passes for a user who is in any session.
InAnySession(username, session_id) == user_session_index[username] # NoSession

\* Lines 54-60: the gate, user_session_index.remove_if(username, |_, v| v == session_id).
IndexGate(username, session_id) == user_session_index[username] = session_id

leave_gate(p) ==
    /\ At(p, "leave_gate")
    /\ LET r == procs[p] IN
       IF IndexGate(r.user, r.sid)
       THEN /\ user_session_index' = [user_session_index EXCEPT ![r.user] = NoSession]
            /\ SetProc(p, [r EXCEPT !.pc = "leave_lock"])
       ELSE /\ SetProc(p, AfterLeave(r, FALSE))
            /\ UNCHANGED user_session_index
    /\ UNCHANGED <<sessions, heap, global_stream_refs, stateLock, out, recording, app, locks, session_update_tx, global_members_tx>>

\* A leave that never removes the session it emptied.
LeaveNeverReaps(is_empty, session_id) == FALSE

\* Line 91: is_empty && session_id != GLOBAL_SESSION_ID.
LeaveReaps(is_empty, session_id) == is_empty /\ session_id # GLOBAL_SESSION_ID

\* Lines 62-89 and 101-107: the session under its inner mutex: the member is
\* removed, the senders of the others collected, the host migrated to
\* members.iter().next() when the leaver was the host.
leave_lock(p) ==
    /\ At(p, "leave_lock")
    /\ LET r == procs[p]
           o == sessions[r.sid] IN
       IF o = NoObj
       THEN /\ SetProc(p, AfterLeave(IF KeepsInfo(r)
                                     THEN [r EXCEPT !.senders = {}, !.was_public = FALSE,
                                                    !.new_host = NoUser, !.host_senders = {}]
                                     ELSE r, TRUE))
            /\ UNCHANGED heap
       ELSE LET was_host == heap[o].host = r.user
                members == heap[o].members \ {r.user}
                senders == SendersExcept(o, r.user)
                is_empty == members = {}
                reap == LeaveReaps(is_empty, r.sid) IN
            \E nh \in IF was_host /\ ~is_empty THEN members ELSE {NoUser} :
              LET r1 == IF KeepsInfo(r)
                        THEN [r EXCEPT !.senders = senders,
                                       !.was_public = heap[o].is_public,
                                       !.new_host = nh,
                                       !.host_senders = IF nh = NoUser THEN {}
                                                        ELSE SenderValues(o)]
                        ELSE r IN
              /\ heap' = [heap EXCEPT ![o].members = members,
                                      ![o].host = IF nh = NoUser THEN @ ELSE nh]
              /\ SetProc(p, IF reap THEN [r1 EXCEPT !.pc = "leave_reap"]
                            ELSE AfterLeave(r1, TRUE))
    /\ UNCHANGED <<sessions, user_session_index, global_stream_refs, stateLock, out, recording, app, locks, session_update_tx, global_members_tx>>

\* Lines 91-94: state.sessions.remove(session_id).
leave_reap(p) ==
    /\ At(p, "leave_reap")
    /\ ~RefHeld(procs[p].sid)
    /\ sessions' = [sessions EXCEPT ![procs[p].sid] = NoObj]
    /\ SetProc(p, AfterLeave(procs[p], TRUE))
    /\ UNCHANGED <<heap, user_session_index, global_stream_refs, stateLock, out, recording, app, locks, session_update_tx, global_members_tx>>

\* ------------------------------------------- signals.rs: StreamSignals
\* Lines 66-71: the session is looked up and its Arc cloned; NotFound when absent.
handle_stream_signals(p, username, session_id) ==
    /\ Fresh(p)
    /\ LET r == [FreeProc EXCEPT !.op = "StreamSignals", !.user = username, !.sid = session_id] IN
       SetProc(p, IF sessions[session_id] = NoObj THEN Finished(r, "NotFound")
                  ELSE [r EXCEPT !.pc = "sig_register", !.obj = sessions[session_id]])
    /\ UNCHANGED <<sessions, heap, user_session_index, global_stream_refs, stateLock, out, recording, app, locks, session_update_tx, global_members_tx>>

\* Lines 72-85: the pipe's sender is inserted under the inner mutex of the cloned
\* record (in the registry or not), and the bridge task is spawned.
sig_register(p) ==
    /\ At(p, "sig_register")
    /\ LET r == procs[p] IN
       /\ heap' = [heap EXCEPT ![r.obj].signal_senders[r.user] = p]
       /\ SetProc(p, [r EXCEPT !.pc = "sig_open", !.obj = NoObj])
    /\ UNCHANGED <<sessions, user_session_index, global_stream_refs, stateLock, out, recording, app, locks, session_update_tx, global_members_tx>>

\* Lines 86-100: the bridge loop ends: the client went away (tonic_tx.closed()) or
\* every sender of the pipe was dropped.
sig_close(p) ==
    /\ At(p, "sig_open")
    /\ CanStart
    /\ SetProc(p, [procs[p] EXCEPT !.pc = "sig_unregister"])
    /\ out' = [out EXCEPT ![p] = <<>>]
    /\ UNCHANGED <<sessions, heap, user_session_index, global_stream_refs, stateLock, recording, app, locks, session_update_tx, global_members_tx>>

\* Lines 103-107: signal_senders.remove(&username) in the session the registry
\* holds under this id now.
sig_unregister(p) ==
    /\ At(p, "sig_unregister")
    /\ LET r == procs[p]
           o == sessions[r.sid] IN
       /\ heap' = IF o = NoObj THEN heap
                  ELSE [heap EXCEPT ![o].signal_senders[r.user] = NoPipe]
       /\ SetProc(p, [r EXCEPT !.pc = "leave_gate"])
    /\ UNCHANGED <<sessions, user_session_index, global_stream_refs, stateLock, out, recording, app, locks, session_update_tx, global_members_tx>>

\* Lines 112-132: notify when public; MemberLeft to the senders of the LeaveInfo.
sig_fan_left(p) ==
    /\ At(p, "sig_fan_left")
    /\ LET r == procs[p] IN
       /\ notify_sessions_changed(r.was_public)
       /\ Fanout(r.senders, Signal("MemberLeft", r.user, "", r.sid, r.user))
       /\ SetProc(p, IF r.new_host # NoUser THEN [r EXCEPT !.pc = "sig_fan_host"]
                     ELSE Finished(r, "closed"))
    /\ UNCHANGED <<sessions, heap, user_session_index, global_stream_refs, stateLock, recording, app, locks, global_members_tx>>

\* Lines 134-151: HostChanged to the senders collected at the migration.
sig_fan_host(p) ==
    /\ At(p, "sig_fan_host")
    /\ LET r == procs[p] IN
       /\ Fanout(r.host_senders, Signal("HostChanged", "", "", r.sid, r.new_host))
       /\ SetProc(p, Finished(r, "closed"))
    /\ UNCHANGED <<sessions, heap, user_session_index, global_stream_refs, stateLock, recording, app, locks, session_update_tx, global_members_tx>>


\* ------------------------------------------ streams.rs: StreamMessages
\* Lines 26-59: under the lock, a global stream counts itself in global_stream_refs
\* and, on the first one of a user, adds the user to the global session's members;
\* then the session's broadcast is subscribed (NotFound when absent), the lock is
\* released, global-members-changed published and the forwarding task spawned.
handle_stream_messages(p, username, session_id) ==
    /\ Fresh(p)
    /\ StateLockFree
    /\ LET r == [FreeProc EXCEPT !.op = "StreamMessages", !.user = username, !.sid = session_id]
           is_global == session_id = GLOBAL_SESSION_ID
           newly_added == is_global /\ global_stream_refs[username] = 0 IN
       IF stateLock = Poisoned
       THEN /\ SetProc(p, Finished(r, "Panic"))
            /\ UNCHANGED <<heap, global_stream_refs, global_members_tx>>
       ELSE /\ global_stream_refs' = IF is_global
                                     THEN [global_stream_refs EXCEPT ![username] = @ + 1]
                                     ELSE global_stream_refs
            /\ heap' = IF newly_added
                       THEN [heap EXCEPT ![sessions[GLOBAL_SESSION_ID]].members = @ \cup {username}]
                       ELSE heap
            /\ global_members_tx' = IF newly_added
                                    THEN Notify(global_members_tx, MembersReceivers)
                                    ELSE global_members_tx
            /\ SetProc(p, IF sessions[session_id] = NoObj THEN Finished(r, "NotFound")
                          ELSE [r EXCEPT !.pc = "msg_open", !.obj = sessions[session_id],
                                         !.since = Len(heap[sessions[session_id]].tx) + 1,
                                         !.next = Len(heap[sessions[session_id]].tx) + 1])
    /\ UNCHANGED <<sessions, user_session_index, stateLock, out, recording, app, locks, session_update_tx>>

\* The receivers of a record's broadcast channel: the forwarding tasks that
\* subscribed to it and have not returned.
Receivers(o) == {q \in ProcIds : procs[q].op = "StreamMessages" /\ procs[q].obj = o
                                   /\ procs[q].pc \notin {"free", "done"}}

\* A receiver whose task returns when it has lagged.
LagBreaks(r, len, capacity) == Finished(r, "closed")

\* Err(RecvError::Lagged(_)) => continue: the receiver's cursor is at the oldest
\* value the channel retains and the task stays in its loop.
LagContinue(r, len, capacity) == [r EXCEPT !.next = len - capacity + 1, !.lagged = TRUE]

\* Lines 67-73: broadcast_rx.recv() has a value: Ok(msg) is sent to the client's
\* pipe; Lagged, when the value at the cursor is no longer retained, moves the
\* cursor to the oldest retained value and the loop continues.
msg_forward(p) ==
    /\ At(p, "msg_open")
    /\ LET r == procs[p]
           tx == heap[r.obj].tx IN
       /\ r.next <= Len(tx)
       /\ IF Len(tx) - r.next + 1 > BROADCAST_CAPACITY
          THEN /\ SetProc(p, LagContinue(r, Len(tx), BROADCAST_CAPACITY))
               /\ UNCHANGED out
          ELSE /\ SetProc(p, [r EXCEPT !.next = @ + 1])
               /\ out' = [out EXCEPT ![p] = Append(@, tx[r.next])]
    /\ UNCHANGED <<sessions, heap, user_session_index, global_stream_refs, stateLock, recording, app, locks, session_update_tx, global_members_tx>>

\* Line 74: recv() returns Closed: the record is out of the registry, no task
\* holds a clone of it and every retained value was received.  The task ends
\* without a cleanup.
msg_closed(p) ==
    /\ At(p, "msg_open")
    /\ LET r == procs[p] IN
       /\ sessions[heap[r.obj].id] # r.obj
       /\ \A q \in ProcIds : procs[q].obj = r.obj => procs[q].op = "StreamMessages"
       /\ r.next > Len(heap[r.obj].tx)
       /\ SetProc(p, Finished(r, "closed"))
    /\ out' = [out EXCEPT ![p] = <<>>]
    /\ UNCHANGED <<sessions, heap, user_session_index, global_stream_refs, stateLock, recording, app, locks, session_update_tx, global_members_tx>>

\* Lines 79-98: the client of a global stream disconnected: the count goes down
\* and, at zero, the entry and the member are removed and global-members-changed
\* is published, all under the lock.
msg_close_global(p) ==
    /\ At(p, "msg_open")
    /\ procs[p].sid = GLOBAL_SESSION_ID
    /\ StateLockFree
    /\ LET r == procs[p]
           ref_count == IF global_stream_refs[r.user] > 0
                        THEN global_stream_refs[r.user] - 1 ELSE 0
           remove == ref_count = 0 IN
       IF stateLock = Poisoned
       THEN /\ SetProc(p, Finished(r, "Panic"))
            /\ UNCHANGED <<heap, global_stream_refs, global_members_tx>>
       ELSE /\ global_stream_refs' = [global_stream_refs EXCEPT ![r.user] = ref_count]
            /\ heap' = IF remove
                       THEN [heap EXCEPT ![sessions[GLOBAL_SESSION_ID]].members = @ \ {r.user}]
                       ELSE heap
            /\ global_members_tx' = IF remove
                                    THEN Notify(global_members_tx, MembersReceivers)
                                    ELSE global_members_tx
            /\ SetProc(p, Finished(r, "closed"))
    /\ out' = [out EXCEPT ![p] = <<>>]
    /\ UNCHANGED <<sessions, user_session_index, stateLock, recording, app, locks, session_update_tx>>

\* Lines 99-107: the client of a session's messages stream disconnected: under
\* the lock, was_public is read and leave_session_inner is called.
msg_close_session(p) ==
    /\ At(p, "msg_open")
    /\ procs[p].sid # GLOBAL_SESSION_ID
    /\ CanStart
    /\ StateLockFree
    /\ LET r == procs[p]
           o == sessions[r.sid] IN
       IF stateLock = Poisoned
       THEN /\ SetProc(p, Finished(r, "Panic"))
            /\ UNCHANGED stateLock
       ELSE /\ SetProc(p, [r EXCEPT !.pc = "leave_gate", !.since = 0, !.next = 0,
                                    !.lagged = FALSE,
                                    !.was_public = (o # NoObj /\ heap[o].is_public)])
            /\ stateLock' = p
    /\ out' = [out EXCEPT ![p] = <<>>]
    /\ UNCHANGED <<sessions, heap, user_session_index, global_stream_refs, recording, app, locks, session_update_tx, global_members_tx>>

\* Lines 108-112: the lock is released and the session list notified.
msg_release(p) ==
    /\ At(p, "msg_release")
    /\ stateLock' = Unlocked(p)
    /\ notify_sessions_changed(procs[p].was_public)
    /\ SetProc(p, Finished(procs[p], "closed"))
    /\ UNCHANGED <<sessions, heap, user_session_index, global_stream_refs, out, recording, app, locks, global_members_tx>>

\* -------------------------------------------- messaging.rs: SendMessage
Contents == {"hi", "yo"}

\* Lines 13-25: the session is looked up and its broadcast Sender cloned
\* (NotFound when absent); the ChatMessage is built.
handle_send_message(p, username, session_id, content) ==
    /\ Fresh(p)
    /\ LET r == [FreeProc EXCEPT !.op = "SendMessage", !.user = username,
                                 !.sid = session_id, !.msg = ChatMessage(username, content)]
           o == sessions[session_id] IN
       SetProc(p, IF o = NoObj THEN Finished(r, "NotFound")
                  ELSE [r EXCEPT !.pc = "chat_send", !.obj = o])
    /\ UNCHANGED <<sessions, heap, user_session_index, global_stream_refs, stateLock, out, recording, app, locks, session_update_tx, global_members_tx>>

\* A channel that hands out its newest value first.
PublishFirst(tx, msg) == <<msg>> \o tx

\* broadcast::Sender::send: the value goes to the tail of the channel.
Publish(tx, msg) == Append(tx, msg)

\* Lines 30-32: tx.send(msg), an error (no receiver: the value is not kept) is
\* ignored; OK is returned.  A recorded call keeps, as `next`, the place its
\* value took in the channel (0 when it was not kept).
chat_send(p) ==
    /\ At(p, "chat_send")
    /\ LET r == procs[p]
           kept == Receivers(r.obj) # {} IN
       /\ heap' = IF kept THEN [heap EXCEPT ![r.obj].tx = Publish(@, r.msg)] ELSE heap
       /\ SetProc(p, Finished([r EXCEPT !.next = IF kept THEN Len(heap[r.obj].tx) + 1 ELSE 0],
                              "OK"))
    /\ UNCHANGED <<sessions, user_session_index, global_stream_refs, stateLock, out, recording, app, locks, session_update_tx, global_members_tx>>

\* ---------------------------------------------- signals.rs: SendSignal
DirectedKinds == {"SdpOffer", "SdpAnswer", "IceCandidate"}
Payloads == {"sdp"}

\* Lines 19-29: the session is looked up and its Arc cloned; OK when absent.
handle_send_signal(p, signal) ==
    /\ Fresh(p)
    /\ LET r == [FreeProc EXCEPT !.op = "SendSignal", !.user = signal.from_user,
                                 !.sid = signal.session_id, !.signal = signal]
           o == sessions[signal.session_id] IN
       SetProc(p, IF o = NoObj THEN Finished(r, "OK")
                  ELSE [r EXCEPT !.pc = "send_lock", !.obj = o])
    /\ UNCHANGED <<sessions, heap, user_session_index, global_stream_refs, stateLock, out, recording, app, locks, session_update_tx, global_members_tx>>

\* A lookup that takes alice's sender whoever the signal is for.
SenderOfAlice(o, to_user) == heap[o].signal_senders["alice"]

\* Lines 32-35: inner.signal_senders.get(&signal.to_user).cloned().
SenderOf(o, to_user) == heap[o].signal_senders[to_user]

\* Lines 30-36: the sender is read under the inner mutex of the cloned record.
send_lock(p) ==
    /\ At(p, "send_lock")
    /\ LET r == procs[p]
           tx == SenderOf(r.obj, r.signal.to_user) IN
       SetProc(p, [r EXCEPT !.pc = "send_tx", !.tx = tx, !.obj = NoObj])
    /\ UNCHANGED <<sessions, heap, user_session_index, global_stream_refs, stateLock, out, recording, app, locks, session_update_tx, global_members_tx>>

\* Lines 38-52: tx.send(Arc::new(signal)) when a sender was found; OK either way.
send_tx(p) ==
    /\ At(p, "send_tx")
    /\ LET r == procs[p] IN
       /\ Fanout(IF r.tx = NoPipe THEN {} ELSE {r.tx}, r.signal)
       /\ SetProc(p, Finished(r, "OK"))
    /\ UNCHANGED <<sessions, heap, user_session_index, global_stream_refs, stateLock, recording, app, locks, session_update_tx, global_members_tx>>

\* ------------------------------------------- sessions.rs: GetMembers
\* A lookup that answers OK, with no members, for a session it did not find.
FoundEmpty(r) == Finished(r, "OK")

\* Line 260: Err(Status::not_found("Session not found")).
NotFound(r) == Finished(r, "NotFound")

\* Lines 252-264: under the lock, the session is looked up and its members cloned.
handle_get_members(p, session_id) ==
    /\ Fresh(p)
    /\ StateLockFree
    /\ LET r == [FreeProc EXCEPT !.op = "GetMembers", !.sid = session_id]
           o == sessions[session_id] IN
       SetProc(p, IF stateLock = Poisoned THEN Finished(r, "Panic")
                  ELSE IF o = NoObj THEN NotFound(r)
                  ELSE Finished([r EXCEPT !.members = heap[o].members], "OK"))
    /\ UNCHANGED <<sessions, heap, user_session_index, global_stream_refs, stateLock, out, recording, app, locks, session_update_tx, global_members_tx>>

\* ------------------------------------------ helpers.rs: public_sessions
NOTIFY_CAPACITY == 16         \* state.rs 73-74: broadcast::channel(16)

\* A filter that keeps the private sessions.
ListsPrivate(o) == heap[o].id # GLOBAL_SESSION_ID

\* Line 15: filter(|e| e.id != GLOBAL_SESSION_ID && e.is_public).
IsListed(o) == heap[o].id # GLOBAL_SESSION_ID /\ heap[o].is_public

\* Lines 12-17: the records of the registry's sessions that pass the filter.
Candidates == {sessions[s] : s \in {x \in SessionIds : sessions[x] # NoObj /\ IsListed(sessions[x])}}

\* Lines 22-28: SessionInfo { id, name, member_count, is_public, max_members }; the
\* name of every session is its id (sessions.rs 37-38).
SessionInfo(o, member_count) ==
    [id |-> heap[o].id, name |-> heap[o].id, member_count |-> member_count,
     is_public |-> heap[o].is_public, max_members |-> heap[o].max_members]

\* Lines 20-29: one candidate is sampled under its inner mutex and pushed.
pub_sample(p) ==
    /\ At(p, "pub_sample")
    /\ \E o \in procs[p].candidates :
          SetProc(p, [procs[p] EXCEPT
                         !.candidates = @ \ {o},
                         !.infos = Append(@, SessionInfo(o, Cardinality(heap[o].members)))])
    /\ UNCHANGED <<sessions, heap, user_session_index, global_stream_refs, stateLock, out, recording, app, locks, session_update_tx, global_members_tx>>

\* ------------------------------------------- sessions.rs: ListSessions
\* Lines 18-20: lock, and public_sessions collects its candidates.
handle_list_sessions(p) ==
    /\ Fresh(p)
    /\ StateLockFree
    /\ LET r == [FreeProc EXCEPT !.op = "ListSessions"] IN
       IF stateLock = Poisoned
       THEN /\ SetProc(p, Finished(r, "Panic"))
            /\ UNCHANGED stateLock
       ELSE /\ SetProc(p, [r EXCEPT !.pc = "pub_sample", !.candidates = Candidates])
            /\ stateLock' = p
    /\ UNCHANGED <<sessions, heap, user_session_index, global_stream_refs, out, recording, app, locks, session_update_tx, global_members_tx>>

\* Lines 19-22: the list is returned and the lock released.
list_return(p) ==
    /\ At(p, "pub_sample")
    /\ procs[p].op = "ListSessions"
    /\ procs[p].candidates = {}
    /\ stateLock' = Unlocked(p)
    /\ SetProc(p, Finished(procs[p], "OK"))
    /\ UNCHANGED <<sessions, heap, user_session_index, global_stream_refs, out, recording, app, locks, session_update_tx, global_members_tx>>

\* ------------------------------------- streams.rs: StreamSessionUpdates
SessionsUpdatedEvent(infos) == [sessions |-> infos]

\* Lines 124-132: under the lock session_update_tx is subscribed; the task is spawned.
handle_stream_session_updates(p) ==
    /\ Fresh(p)
    /\ StateLockFree
    /\ LET r == [FreeProc EXCEPT !.op = "StreamSessionUpdates"] IN
       SetProc(p, IF stateLock = Poisoned THEN Finished(r, "Panic")
                  ELSE [r EXCEPT !.pc = "upd_lock", !.since = session_update_tx + 1,
                                 !.next = session_update_tx + 1])
    /\ UNCHANGED <<sessions, heap, user_session_index, global_stream_refs, stateLock, out, recording, app, locks, session_update_tx, global_members_tx>>

\* Lines 133-136 and 150-153: lock, and public_sessions collects its candidates.
upd_lock(p) ==
    /\ At(p, "upd_lock")
    /\ StateLockFree
    /\ IF stateLock = Poisoned
       THEN /\ SetProc(p, Finished(procs[p], "Panic"))
            /\ UNCHANGED stateLock
       ELSE /\ SetProc(p, [procs[p] EXCEPT !.pc = "pub_sample", !.candidates = Candidates])
            /\ stateLock' = p
    /\ UNCHANGED <<sessions, heap, user_session_index, global_stream_refs, out, recording, app, locks, session_update_tx, global_members_tx>>

\* Lines 137-142 and 154-156: the lock is released and the event sent to the client.
upd_emit(p) ==
    /\ At(p, "pub_sample")
    /\ procs[p].op = "StreamSessionUpdates"
    /\ procs[p].candidates = {}
    /\ stateLock' = Unlocked(p)
    /\ out' = [out EXCEPT ![p] = Append(@, SessionsUpdatedEvent(procs[p].infos))]
    /\ SetProc(p, [procs[p] EXCEPT !.pc = "upd_open", !.infos = <<>>])
    /\ UNCHANGED <<sessions, heap, user_session_index, global_stream_refs, recording, app, locks, session_update_tx, global_members_tx>>

\* Lines 148-158: update_rx.recv() has a value: Ok(()) goes on to rebuild the
\* list; Lagged, when the value at the cursor is no longer retained, moves the
\* cursor to the oldest retained value and the loop continues.
upd_recv(p) ==
    /\ At(p, "upd_open")
    /\ CanStart
    /\ LET r == procs[p] IN
       /\ r.next <= session_update_tx
       /\ SetProc(p, IF session_update_tx - r.next + 1 > NOTIFY_CAPACITY
                     THEN LagContinue(r, session_update_tx, NOTIFY_CAPACITY)
                     ELSE [r EXCEPT !.next = @ + 1, !.pc = "upd_lock"])
    /\ UNCHANGED <<sessions, heap, user_session_index, global_stream_refs, stateLock, out, recording, app, locks, session_update_tx, global_members_tx>>

\* Line 147: tx.closed(): the client went away; the task returns.
upd_close(p) ==
    /\ At(p, "upd_open")
    /\ SetProc(p, Finished(procs[p], "closed"))
    /\ out' = [out EXCEPT ![p] = <<>>]
    /\ UNCHANGED <<sessions, heap, user_session_index, global_stream_refs, stateLock, recording, app, locks, session_update_tx, global_members_tx>>

\* ------------------------------------- streams.rs: StreamGlobalMembers
GlobalMembersEvent(members) == [members |-> members]

\* Lines 175-179 and 202-206: the members of `__global__`.
GlobalMembers == heap[sessions[GLOBAL_SESSION_ID]].members

\* Lines 172-193: under the lock global_members_tx is subscribed and the members
\* of `__global__` are read; the initial event is sent and the task spawned.
handle_stream_global_members(p) ==
    /\ Fresh(p)
    /\ StateLockFree
    /\ LET r == [FreeProc EXCEPT !.op = "StreamGlobalMembers"] IN
       IF stateLock = Poisoned
       THEN /\ SetProc(p, Finished(r, "Panic"))
            /\ UNCHANGED out
       ELSE /\ SetProc(p, [r EXCEPT !.pc = "gm_open", !.since = global_members_tx + 1,
                                    !.next = global_members_tx + 1])
            /\ out' = [out EXCEPT ![p] = <<GlobalMembersEvent(GlobalMembers)>>]
    /\ UNCHANGED <<sessions, heap, user_session_index, global_stream_refs, stateLock, recording, app, locks, session_update_tx, global_members_tx>>

\* Lines 198-212: members_rx.recv() has a value: Ok(()) goes on to read the
\* members; Lagged moves the cursor to the oldest retained value and continues.
gm_recv(p) ==
    /\ At(p, "gm_open")
    /\ CanStart
    /\ LET r == procs[p] IN
       /\ r.next <= global_members_tx
       /\ SetProc(p, IF global_members_tx - r.next + 1 > NOTIFY_CAPACITY
                     THEN LagContinue(r, global_members_tx, NOTIFY_CAPACITY)
                     ELSE [r EXCEPT !.next = @ + 1, !.pc = "gm_read"])
    /\ UNCHANGED <<sessions, heap, user_session_index, global_stream_refs, stateLock, out, recording, app, locks, session_update_tx, global_members_tx>>

\* Lines 200-210: under the lock the members of `__global__` are read; the event
\* is sent to the client.
gm_read(p) ==
    /\ At(p, "gm_read")
    /\ StateLockFree
    /\ IF stateLock = Poisoned
       THEN /\ SetProc(p, Finished(procs[p], "Panic"))
            /\ UNCHANGED out
       ELSE /\ SetProc(p, [procs[p] EXCEPT !.pc = "gm_open"])
            /\ out' = [out EXCEPT ![p] = Append(@, GlobalMembersEvent(GlobalMembers))]
    /\ UNCHANGED <<sessions, heap, user_session_index, global_stream_refs, stateLock, recording, app, locks, session_update_tx, global_members_tx>>

\* Line 197: tx.closed(): the client went away; the task returns.
gm_close(p) ==
    /\ At(p, "gm_open")
    /\ SetProc(p, Finished(procs[p], "closed"))
    /\ out' = [out EXCEPT ![p] = <<>>]
    /\ UNCHANGED <<sessions, heap, user_session_index, global_stream_refs, stateLock, recording, app, locks, session_update_tx, global_members_tx>>

\* ------------------------------------------------------ specifications
\* The steps of join_session_inner and leave_session_inner.
InnerStep(p) ==
    \/ join_index_remove(p)
    \/ join_old_lock(p)
    \/ join_old_reap(p)
    \/ join_target_lock(p)
    \/ join_index_insert(p)
    \/ leave_gate(p)
    \/ leave_lock(p)
    \/ leave_reap(p)

\* --------------------------------- client: state.rs, the cancel notifiers
ServerVars == <<sessions, heap, user_session_index, global_stream_refs, stateLock,
                procs, out, recording, session_update_tx, global_members_tx, locks>>

\* A Sender that is leaked instead of dropped.
Forgotten(channels, tx) == channels

\* A Sender that is dropped without a send: its Receiver completes with an error.
Dropped(channels, tx) ==
    IF tx = NoSender THEN channels ELSE [channels EXCEPT ![tx].state = "dropped"]

\* tx.send(()): the Receiver completes.
Fired(channels, tx) ==
    IF tx = NoSender THEN channels ELSE [channels EXCEPT ![tx].state = "sent"]

\* Lines 106-109 and 116-119: under the kind's mutex, the notifier is taken out
\* and fired (the guard of the `if let` scrutinee lives to the end of the block).
TakeAndFire(kind) ==
    [app EXCEPT !.cancel_tx[kind] = NoSender,
                !.channels = Fired(@, app.cancel_tx[kind])]

\* Lines 105-109: reset_stream, up to the firing of the previous notifier.
reset_stream(c, kind) ==
    /\ app.commands[c].pc = "idle"
    /\ Cardinality({n \in Channels : app.channels[n].state = "none"})
          > Cardinality({d \in Commands : app.commands[d].pc = "reset_install"})
    /\ app' = [TakeAndFire(kind) EXCEPT
                  !.commands[c] = [IdleCommand EXCEPT !.op = "reset_stream", !.kind = kind,
                                                      !.pc = "reset_install"]]
    /\ UNCHANGED ServerVars

\* Lines 110-112: a new channel is made and its Sender stored under the mutex;
\* the Sender found there is dropped by the assignment.  The Receiver is returned.
reset_install(c) ==
    /\ app.commands[c].pc = "reset_install"
    /\ LET kind == app.commands[c].kind
           n == CHOOSE n \in Channels :
                   /\ app.channels[n].state = "none"
                   /\ \A m \in Channels : m < n => app.channels[m].state # "none"
           made == [app.channels EXCEPT ![n] = [state |-> "open", kind |-> kind, task |-> FALSE]] IN
       app' = [app EXCEPT
                 !.cancel_tx[kind] = n,
                 !.channels = Dropped(made, app.cancel_tx[kind]),
                 !.commands = [d \in Commands |->
                     IF d = c THEN [@[d] EXCEPT !.pc = "spawn", !.rx = n]
                     ELSE IF @[d].op = "cancel_all_streams"
                          THEN [@[d] EXCEPT !.overlapped = TRUE] ELSE @[d]]]
    /\ UNCHANGED ServerVars

\* commands/streaming.rs 24-72, 146-155: the command hands the Receiver to the
\* stream task it spawns; the task ends when the Receiver completes.
spawn_stream_task(c) ==
    /\ app.commands[c].pc = "spawn"
    /\ app' = [app EXCEPT !.channels[app.commands[c].rx].task = TRUE,
                          !.commands[c] = IdleCommand]
    /\ UNCHANGED ServerVars

\* commands/streaming.rs 148, commands/webrtc.rs 42: get_channel()? fails and the
\* command returns without a task; the Receiver is dropped.
spawn_fails(c) ==
    /\ app.commands[c].pc = "spawn"
    /\ app' = [app EXCEPT !.commands[c] = IdleCommand]
    /\ UNCHANGED ServerVars

\* Lines 115-120: cancel_stream; the command that called it returns.
cancel_stream(c, kind) ==
    /\ app.commands[c].pc = "idle"
    /\ app' = TakeAndFire(kind)
    /\ UNCHANGED ServerVars

\* Lines 122-132: cancel_all_streams is called; the kinds are still to be visited.
cancel_all_streams(c) ==
    /\ app.commands[c].pc = "idle"
    /\ app' = [app EXCEPT !.commands[c] = [IdleCommand EXCEPT !.op = "cancel_all_streams",
                                                              !.pc = "cancel_next",
                                                              !.todo = StreamKinds]]
    /\ UNCHANGED ServerVars

\* Line 130: self.cancel_stream(kind) for the next kind of the array; after the
\* last one cancel_all_streams returns.
cancel_next(c) ==
    /\ app.commands[c].pc = "cancel_next"
    /\ LET r == app.commands[c]
           kind == Head(r.todo) IN
       app' = [TakeAndFire(kind) EXCEPT
                  !.commands[c] = IF Len(r.todo) = 1 THEN IdleCommand
                                  ELSE [r EXCEPT !.todo = Tail(r.todo)]]
    /\ UNCHANGED ServerVars

\* ------------------------- session.rs, signals.rs: guards and worker threads
\* The steps above take a session's inner mutex, act and release it in one step.
\* Below, the same steps are taken with the registry Ref, the mutex and the
\* worker thread of the task made explicit.
LockFrame == UNCHANGED <<sessions, heap, user_session_index, global_stream_refs, stateLock,
                         procs, out, recording, session_update_tx, global_members_tx, app>>

\* The steps that look the session up with sessions.get() and keep the Ref while
\* they lock its mutex (session.rs 62-63, 121-122, 134-141; signals.rs 104-105),
\* and those that lock the mutex of an Arc cloned before (signals.rs 22-30, 66-75).
RegistrySections == {"join_old_lock", "join_target_lock", "leave_lock", "sig_unregister"}
CloneSections == {"send_lock", "sig_register"}

SectionKey(p) == IF procs[p].pc = "join_old_lock" THEN procs[p].old_id ELSE procs[p].sid

SectionObj(p) == IF procs[p].pc \in CloneSections THEN procs[p].obj
                 ELSE sessions[SectionKey(p)]

OnWorker(p) == p \in locks.running

WorkerFree == Cardinality(locks.running) < Workers

MutexFree(o) == \A q \in ProcIds : o \notin locks.held[q]

\* sessions.remove(key) takes the shard's write lock: no Ref on the key is alive.
NoRefOn(key) == \A q \in ProcIds : locks.ref[q] # key

\* The task may go on with a step that needs no guard: it holds none.
Plain(p) == OnWorker(p) /\ locks.stage[p] = ""

\* The task is inside the mutex it locked for the step it is at.
InSection(p) ==
    /\ OnWorker(p)
    /\ locks.stage[p] = "locked"
    /\ locks.at[p] = procs[p].pc
    /\ SectionObj(p) \in locks.held[p]

\* sessions.get() returned None: the step runs its else branch with no guard.
Absent(p) ==
    /\ Plain(p)
    /\ procs[p].pc \in RegistrySections
    /\ sessions[SectionKey(p)] = NoObj

\* The task wants the mutex of its section: it has the Ref, or the cloned Arc.
WantsMutex(p) ==
    \/ locks.stage[p] \in {"ref", "wait"} /\ locks.at[p] = procs[p].pc
    \/ locks.stage[p] = "" /\ procs[p].pc \in CloneSections

\* A call that has not started, the next one that no worker thread has polled.
NewCall(p) ==
    /\ procs[p].pc = "free"
    /\ \A q \in ProcIds : q < p => (procs[q].pc # "free" \/ OnWorker(q))

\* main.rs 31: a worker thread of the runtime polls a new call or a stream task.
worker_polls(p) ==
    /\ ~OnWorker(p)
    /\ WorkerFree
    /\ NewCall(p) \/ procs[p].pc = "sig_open"
    /\ locks' = [locks EXCEPT !.running = @ \cup {p}]
    /\ LockFrame

\* The task returns Poll::Ready or Pending with nothing held: a finished call, a
\* stream back in its loop, a call that was not made after all.  A call that
\* waits in state.lock() stays on its worker thread.
worker_yields(p) ==
    /\ Plain(p)
    /\ procs[p].pc \in {"free", "done", "sig_open"}
    /\ procs[p].pc = "free" => StateLockFree
    /\ locks' = [locks EXCEPT !.running = @ \ {p}]
    /\ LockFrame

\* state.sessions.get(id) returned Some: the Ref is held.
registry_get(p) ==
    /\ Plain(p)
    /\ procs[p].pc \in RegistrySections
    /\ sessions[SectionKey(p)] # NoObj
    /\ locks' = [locks EXCEPT !.ref[p] = SectionKey(p), !.stage[p] = "ref",
                              !.at[p] = procs[p].pc]
    /\ LockFrame

\* A drop(inner) that leaves the mutex locked.
StillHeld(held) == held

\* drop(inner), or the end of the statement or block the guard lives in.
Released(held) == {}

\* inner.lock().await when the mutex is free: the task goes on at once.
mutex_lock(p) ==
    /\ OnWorker(p)
    /\ WantsMutex(p)
    /\ MutexFree(SectionObj(p))
    /\ locks' = [locks EXCEPT !.held[p] = @ \cup {SectionObj(p)}, !.stage[p] = "locked",
                              !.at[p] = procs[p].pc]
    /\ LockFrame

\* inner.lock().await when the mutex is taken: the task is suspended and its
\* worker thread is free for another task; what the task holds it keeps.
mutex_wait(p) ==
    /\ OnWorker(p)
    /\ WantsMutex(p)
    /\ ~MutexFree(SectionObj(p))
    /\ locks' = [locks EXCEPT !.running = @ \ {p},
                              !.stage[p] = IF @ = "" THEN "wait" ELSE @,
                              !.at[p] = procs[p].pc]
    /\ LockFrame

\* The mutex was released: a worker thread polls the suspended task, which gets it.
mutex_wakes(p) ==
    /\ ~OnWorker(p)
    /\ locks.stage[p] \in {"ref", "wait"}
    /\ WorkerFree
    /\ MutexFree(SectionObj(p))
    /\ locks' = [locks EXCEPT !.running = @ \cup {p},
                              !.held[p] = @ \cup {SectionObj(p)}, !.stage[p] = "locked"]
    /\ LockFrame

\* The guard of the inner mutex is dropped after the section.
mutex_unlock(p) ==
    /\ OnWorker(p)
    /\ locks.stage[p] = "locked"
    /\ locks.at[p] # procs[p].pc
    /\ locks' = [locks EXCEPT !.held[p] = Released(@),
                              !.stage[p] = IF locks.ref[p] = NoSession THEN "" ELSE "unlocked",
                              !.at[p] = IF locks.ref[p] = NoSession THEN "" ELSE @]
    /\ LockFrame

\* The Ref is dropped: drop(session), drop(old_session), or the end of its scope,
\* which for the target of a join is the end of join_session_inner.
ref_drop(p) ==
    /\ OnWorker(p)
    /\ locks.stage[p] = "unlocked"
    /\ procs[p].pc # "join_index_insert"
    /\ locks' = [locks EXCEPT !.ref[p] = NoSession, !.stage[p] = "", !.at[p] = ""]
    /\ LockFrame

\* The calls and the stream close, on a worker thread.
call_join_session(p, username, session_id) ==
    OnWorker(p) /\ handle_join_session(p, username, session_id)

call_send_signal(p, signal) == OnWorker(p) /\ handle_send_signal(p, signal)

call_stream_signals(p, username, session_id) ==
    OnWorker(p) /\ handle_stream_signals(p, username, session_id)

stream_closes(p) == Plain(p) /\ sig_close(p)

\* The sections, inside the mutex or with the session absent.
old_section(p) == (InSection(p) \/ Absent(p)) /\ join_old_lock(p)

target_section(p) == (InSection(p) \/ Absent(p)) /\ join_target_lock(p)

leave_section(p) == (InSection(p) \/ Absent(p)) /\ leave_lock(p)

unregister_section(p) == (InSection(p) \/ Absent(p)) /\ sig_unregister(p)

register_section(p) == InSection(p) /\ sig_register(p)

send_section(p) == InSection(p) /\ send_lock(p)

\* sessions.remove(): blocks its worker thread while a Ref on the key is alive.
old_removed(p) == Plain(p) /\ NoRefOn(procs[p].old_id) /\ join_old_reap(p)

session_removed(p) == Plain(p) /\ NoRefOn(procs[p].sid) /\ leave_reap(p)

\* user_session_index.insert with the target's Ref alive and its mutex released.
index_inserted(p) == OnWorker(p) /\ locks.stage[p] = "unlocked" /\ join_index_insert(p)

\* The steps that take no guard.
unguarded_step(p) ==
    /\ Plain(p)
    /\ \/ join_index_remove(p)
       \/ join_snapshot(p)
       \/ join_fanout(p)
       \/ leave_gate(p)
       \/ sig_fan_left(p)
       \/ sig_fan_host(p)
       \/ send_tx(p)

\* The steps of a handler or stream task after its first.
HandlerStep(p) ==
    \/ create_return(p)
    \/ join_snapshot(p)
    \/ join_fanout(p)
    \/ leave_migrate(p)
    \/ leave_fan_left(p)
    \/ leave_fan_host(p)
    \/ sig_register(p)
    \/ sig_unregister(p)
    \/ sig_fan_left(p)
    \/ sig_fan_host(p)

\* Everything, from the state after ServerState::new.
Next ==
    \/ \E p \in 1..GeneralOps :
            \/ \E u \in Users, pub \in BOOLEAN, m \in ReqMaxMembers :
                    handle_create_session(p, u, pub, m)
            \/ \E u \in Users, s \in SessionIds : handle_join_session(p, u, s)
            \/ \E u \in Users, s \in SessionIds : handle_leave_session(p, u, s)
            \/ \E u \in Users, s \in SessionIds : handle_stream_signals(p, u, s)
            \/ \E u \in Users, s \in SessionIds : handle_stream_messages(p, u, s)
    \/ \E p \in ProcIds :
            \/ sig_close(p)
            \/ msg_close_global(p)
            \/ msg_close_session(p)
            \/ msg_release(p)
            \/ InnerStep(p)
            \/ HandlerStep(p)

Spec == Init /\ [][Next]_vars

\* A lobby in use: alice created LOBBYAAA (public, max_members 3), bob joined it,
\* then both opened their signal streams.  Invocations 1 to 4 are those calls.
LobbyCode == "LOBBYAAA"
LobbyObj == 1
AliceStream == 3
BobStream == 4

LobbyState ==
    /\ sessions = [s \in SessionIds |->
                     CASE s = GLOBAL_SESSION_ID -> GlobalObj
                       [] s = LobbyCode -> LobbyObj
                       [] OTHER -> NoObj]
    /\ heap = [o \in Objs |->
                 CASE o = GlobalObj -> SessionData(GLOBAL_SESSION_ID, FALSE, 0, NoUser)
                   [] o = LobbyObj ->
                        [SessionData(LobbyCode, TRUE, 3, "alice") EXCEPT
                            !.members = {"alice", "bob"},
                            !.signal_senders = [u \in Users |->
                                CASE u = "alice" -> AliceStream
                                  [] u = "bob" -> BobStream
                                  [] OTHER -> NoPipe]]
                   [] OTHER -> NoData]
    /\ user_session_index = [u \in Users |->
                               IF u \in {"alice", "bob"} THEN LobbyCode ELSE NoSession]
    /\ global_stream_refs = [u \in Users |-> 0]
    /\ stateLock = 0
    /\ procs = [p \in ProcIds |->
                  CASE p \in {1, 2} -> [FreeProc EXCEPT !.pc = "done"]
                    [] p = AliceStream ->
                         [FreeProc EXCEPT !.op = "StreamSignals", !.user = "alice",
                                          !.sid = LobbyCode, !.pc = "sig_open"]
                    [] p = BobStream ->
                         [FreeProc EXCEPT !.op = "StreamSignals", !.user = "bob",
                                          !.sid = LobbyCode, !.pc = "sig_open"]
                    [] OTHER -> FreeProc]
    /\ out = [p \in ProcIds |-> <<>>]
    /\ session_update_tx = 0
    /\ global_members_tx = 0

LobbyInit == LobbyState /\ recording = FALSE /\ app = AppNew /\ locks = NoGuards

NextLobby ==
    \E p \in ProcIds :
            \/ \E u \in Users, pub \in BOOLEAN, m \in ReqMaxMembers :
                    handle_create_session(p, u, pub, m)
            \/ \E u \in Users, s \in SessionIds : handle_join_session(p, u, s)
            \/ \E u \in Users, s \in SessionIds : handle_leave_session(p, u, s)
            \/ \E u \in Users, s \in SessionIds : handle_stream_signals(p, u, s)
            \/ sig_close(p)
            \/ InnerStep(p)
            \/ HandlerStep(p)

SpecLobby == LobbyInit /\ [][NextLobby]_vars

\* The lobby, with the responses of the calls recorded.
LobbyRecordedInit == LobbyState /\ recording = TRUE /\ app = AppNew /\ locks = NoGuards

\* Its two members leave it by LeaveSession or by the close of their signal
\* streams, and nobody joins.

NextLeaveRace ==
    \E p \in ProcIds :
            \/ \E u \in {"alice", "bob"} : handle_leave_session(p, u, LobbyCode)
            \/ sig_close(p)
            \/ leave_gate(p)
            \/ leave_lock(p)
            \/ leave_reap(p)
            \/ leave_migrate(p)
            \/ leave_fan_left(p)
            \/ leave_fan_host(p)
            \/ sig_unregister(p)
            \/ sig_fan_left(p)
            \/ sig_fan_host(p)

SpecLeaveRace == LobbyRecordedInit /\ [][NextLeaveRace]_vars

\* The lobby, when signal streams close while bob moves to another session and
\* nobody calls LeaveSession.  A started handler or cleanup task keeps being
\* scheduled (tokio runs every spawned task; the mutexes are released after
\* finitely many steps).
StreamDeathStep(p) ==
    \/ InnerStep(p)
    \/ create_return(p)
    \/ join_snapshot(p)
    \/ join_fanout(p)
    \/ sig_unregister(p)
    \/ sig_fan_left(p)
    \/ sig_fan_host(p)

NextStreamDeath ==
    \E p \in ProcIds :
            \/ \E pub \in BOOLEAN, m \in ReqMaxMembers :
                    handle_create_session(p, "bob", pub, m)
            \/ \E s \in SessionIds \ {LobbyCode} : handle_join_session(p, "bob", s)
            \/ sig_close(p)
            \/ StreamDeathStep(p)

SpecStreamDeath ==
    /\ LobbyInit
    /\ [][NextStreamDeath]_vars
    /\ \A p \in ProcIds : WF_vars(StreamDeathStep(p))

\* Directed signals are sent to the lobby (and to a session that does not exist)
\* while signal streams close and are opened again.
NextSignals ==
    \E p \in ProcIds :
            \/ \E kind \in DirectedKinds, from_user \in Users, to_user \in Users,
                  s \in LobbyCodes, payload \in Payloads :
                    handle_send_signal(p, Signal(kind, from_user, to_user, s, payload))
            \/ send_lock(p)
            \/ send_tx(p)
            \/ \E u \in Users : handle_stream_signals(p, u, LobbyCode)
            \/ sig_register(p)
            \/ sig_close(p)
            \/ sig_unregister(p)
            \/ leave_gate(p)
            \/ leave_lock(p)
            \/ leave_reap(p)
            \/ sig_fan_left(p)
            \/ sig_fan_host(p)

SpecSignals == LobbyRecordedInit /\ [][NextSignals]_vars

\* Two lobbies in use: alice created LOBBYAAA (public, max_members 2), bob created
\* LOBBYBBB (private, max_members 3); carol is connected and in no lobby.
\* Invocations 1 and 2 are the two CreateSession calls; responses are recorded.
FirstCall == MaxCreates + 1
SecondCall == FirstCall + 1

TwoLobbiesInit ==
    /\ sessions = [s \in SessionIds |->
                     CASE s = GLOBAL_SESSION_ID -> GlobalObj
                       [] s = "LOBBYAAA" -> 1
                       [] OTHER -> 2]
    /\ heap = [o \in Objs |->
                 CASE o = GlobalObj -> SessionData(GLOBAL_SESSION_ID, FALSE, 0, NoUser)
                   [] o = 1 -> [SessionData("LOBBYAAA", TRUE, 2, "alice") EXCEPT
                                   !.members = {"alice"}]
                   [] o = 2 -> [SessionData("LOBBYBBB", FALSE, 3, "bob") EXCEPT
                                   !.members = {"bob"}]
                   [] OTHER -> NoData]
    /\ user_session_index = [u \in Users |->
                               CASE u = "alice" -> "LOBBYAAA"
                                 [] u = "bob" -> "LOBBYBBB"
                                 [] OTHER -> NoSession]
    /\ global_stream_refs = [u \in Users |-> 0]
    /\ stateLock = 0
    /\ procs = [p \in ProcIds |->
                  IF p < FirstCall THEN [FreeProc EXCEPT !.pc = "done"] ELSE FreeProc]
    /\ out = [p \in ProcIds |-> <<>>]
    /\ session_update_tx = 0
    /\ global_members_tx = 0
    /\ recording = TRUE /\ app = AppNew /\ locks = NoGuards

NextTwoLobbies ==
    \/ \E p \in FirstCall..(FirstCall + ScenarioCalls - 1) :
            \/ \E u \in Users, s \in SessionIds : handle_join_session(p, u, s)
            \/ \E u \in Users, s \in LobbyCodes : handle_leave_session(p, u, s)
            \/ \E u \in Users : handle_stream_messages(p, u, GLOBAL_SESSION_ID)
    \/ \E p \in ProcIds :
            \/ msg_close_global(p)
            \/ InnerStep(p)
            \/ join_snapshot(p)
            \/ join_fanout(p)
            \/ leave_migrate(p)
            \/ leave_fan_left(p)
            \/ leave_fan_host(p)

SpecTwoLobbies == TwoLobbiesInit /\ [][NextTwoLobbies]_vars

\* The two lobbies, when chat messages are sent while messages streams are opened
\* and closed.  A forwarding task whose channel has a value keeps being polled.
ChatStep(p) ==
    \/ chat_send(p)
    \/ msg_forward(p)

NextChat ==
    \/ \E p \in FirstCall..(FirstCall + ScenarioCalls - 1) :
            \/ \E u \in {"alice", "carol"} : handle_stream_messages(p, u, "LOBBYAAA")
            \/ \E u \in {"alice", "bob"}, s \in LobbyCodes, c \in Contents :
                    handle_send_message(p, u, s, c)
    \/ \E p \in ProcIds :
            \/ ChatStep(p)
            \/ msg_closed(p)
            \/ msg_close_session(p)
            \/ msg_release(p)
            \/ leave_gate(p)
            \/ leave_lock(p)
            \/ leave_reap(p)

SpecChat ==
    /\ TwoLobbiesInit
    /\ [][NextChat]_vars
    /\ \A p \in ProcIds : WF_vars(ChatStep(p))

\* The lobby, when bob moves to another session: `__global__`, or the session
\* that carol creates.  No stream closes and nobody calls LeaveSession.
NextAutoLeave ==
    \E p \in ProcIds :
            \/ \E pub \in BOOLEAN, m \in ReqMaxMembers :
                    handle_create_session(p, "carol", pub, m)
            \/ \E s \in SessionIds \ {LobbyCode} : handle_join_session(p, "bob", s)
            \/ create_return(p)
            \/ join_snapshot(p)
            \/ join_fanout(p)
            \/ join_index_remove(p)
            \/ join_old_lock(p)
            \/ join_target_lock(p)
            \/ join_index_insert(p)

SpecAutoLeave == LobbyRecordedInit /\ [][NextAutoLeave]_vars

\* The lobby, when JoinSession is called for it and bob or carol opens a signal
\* stream in it.  No stream closes and nobody calls LeaveSession.
NextJoinFanout ==
    \E p \in ProcIds :
            \/ \E u \in Users : handle_join_session(p, u, LobbyCode)
            \/ \E u \in {"bob", "carol"} : handle_stream_signals(p, u, LobbyCode)
            \/ sig_register(p)
            \/ join_index_remove(p)
            \/ join_old_lock(p)
            \/ join_target_lock(p)
            \/ join_index_insert(p)
            \/ join_snapshot(p)
            \/ join_fanout(p)

SpecJoinFanout == LobbyRecordedInit /\ [][NextJoinFanout]_vars

\* The empty server, when sessions are created with every requested capacity;
\* the responses are recorded.
NextCreate ==
    \/ \E p \in 1..GeneralOps :
            \E u \in Users, pub \in BOOLEAN, m \in RequestedMax :
                handle_create_session(p, u, pub, m)
    \/ \E p \in ProcIds :
            \/ join_index_remove(p)
            \/ join_old_lock(p)
            \/ join_old_reap(p)
            \/ join_target_lock(p)
            \/ join_index_insert(p)
            \/ create_return(p)

CreateInit == EmptyServer /\ recording = TRUE /\ app = AppNew /\ locks = NoGuards

SpecCreate == CreateInit /\ [][NextCreate]_vars

\* The two lobbies, when LeaveSession is called for any user and any session
\* while alice has a global messages stream and bob a signal stream on
\* `__global__`.  Nobody joins, so user_session_index[u] can be s only for alice
\* with LOBBYAAA and bob with LOBBYBBB.
NextStrangerLeave ==
    \/ \E p \in FirstCall..(FirstCall + ScenarioCalls - 1) :
            \/ \E u \in Users, s \in SessionIds : handle_leave_session(p, u, s)
            \/ handle_stream_messages(p, "alice", GLOBAL_SESSION_ID)
            \/ handle_stream_signals(p, "bob", GLOBAL_SESSION_ID)
    \/ \E p \in ProcIds :
            \/ sig_register(p)
            \/ leave_gate(p)
            \/ leave_lock(p)
            \/ leave_reap(p)
            \/ leave_migrate(p)
            \/ leave_fan_left(p)

SpecStrangerLeave == TwoLobbiesInit /\ [][NextStrangerLeave]_vars

\* The empty server, when the calls that look a session up are made for sessions
\* that are in the registry and for sessions that are not, while bob creates a
\* session; the responses are recorded.
NextNotFound ==
    \/ \E p \in 1..(ScenarioCalls + 1) :
            \/ handle_create_session(p, "bob", TRUE, 0)
            \/ handle_send_message(p, "alice", "LOBBYAAA", "hi")
            \/ \E u \in {"alice", "bob"}, s \in SessionIds : handle_join_session(p, u, s)
            \/ handle_get_members(p, "LOBBYAAA")
            \/ handle_stream_signals(p, "alice", "LOBBYAAA")
    \/ \E p \in ProcIds :
            \/ chat_send(p)
            \/ sig_register(p)
            \/ join_index_remove(p)
            \/ join_old_lock(p)
            \/ join_old_reap(p)
            \/ join_target_lock(p)
            \/ join_index_insert(p)
            \/ join_snapshot(p)
            \/ join_fanout(p)
            \/ create_return(p)

SpecNotFound == CreateInit /\ [][NextNotFound]_vars


\* The two lobbies, when a client watches the session list while alice and carol
\* join and leave sessions and alice opens and closes a signal stream.
NextListNotify ==
    \/ \E p \in FirstCall..(FirstCall + ScenarioCalls - 1) :
            \/ handle_stream_session_updates(p)
            \/ \E u \in {"alice", "carol"}, s \in LobbyCodes : handle_join_session(p, u, s)
            \/ \E s \in LobbyCodes : handle_leave_session(p, "alice", s)
            \/ handle_stream_signals(p, "alice", "LOBBYAAA")
    \/ \E p \in ProcIds :
            \/ upd_lock(p)
            \/ pub_sample(p)
            \/ upd_emit(p)
            \/ upd_recv(p)
            \/ sig_close(p)
            \/ InnerStep(p)
            \/ join_snapshot(p)
            \/ join_fanout(p)
            \/ leave_migrate(p)
            \/ leave_fan_left(p)
            \/ leave_fan_host(p)
            \/ sig_register(p)
            \/ sig_unregister(p)
            \/ sig_fan_left(p)
            \/ sig_fan_host(p)

SpecListNotify == TwoLobbiesInit /\ [][NextListNotify]_vars

\* The two lobbies, when a client watches the global members while alice and
\* carol open and close global messages streams and join and leave `__global__`.
NextPresence ==
    \/ \E p \in FirstCall..(FirstCall + ScenarioCalls - 1) :
            \/ handle_stream_global_members(p)
            \/ \E u \in {"alice", "carol"} : handle_stream_messages(p, u, GLOBAL_SESSION_ID)
            \/ \E u \in {"alice", "carol"} : handle_join_session(p, u, GLOBAL_SESSION_ID)
            \/ \E u \in {"alice", "carol"} : handle_leave_session(p, u, GLOBAL_SESSION_ID)
    \/ \E p \in ProcIds :
            \/ gm_recv(p)
            \/ gm_read(p)
            \/ msg_close_global(p)
            \/ join_index_remove(p)
            \/ join_old_lock(p)
            \/ join_old_reap(p)
            \/ join_target_lock(p)
            \/ join_index_insert(p)
            \/ join_snapshot(p)
            \/ join_fanout(p)
            \/ leave_gate(p)
            \/ leave_lock(p)
            \/ leave_migrate(p)
            \/ leave_fan_left(p)

SpecPresence == TwoLobbiesInit /\ [][NextPresence]_vars

\* The empty server, when alice creates a public session, carol a private one and
\* bob joins them and opens and closes a signal stream, while the session list
\* is read by ListSessions and by a StreamSessionUpdates stream; the responses
\* are recorded.
NextList ==
    \/ \E p \in 1..(ScenarioCalls + 1) :
            \/ handle_create_session(p, "alice", TRUE, 0)
            \/ handle_create_session(p, "carol", FALSE, 0)
            \/ \E s \in LobbyCodes : handle_join_session(p, "bob", s)
            \/ \E s \in LobbyCodes : handle_stream_signals(p, "bob", s)
            \/ handle_list_sessions(p)
            \/ handle_stream_session_updates(p)
    \/ \E p \in ProcIds :
            \/ pub_sample(p)
            \/ list_return(p)
            \/ upd_lock(p)
            \/ upd_emit(p)
            \/ upd_recv(p)
            \/ sig_close(p)
            \/ InnerStep(p)
            \/ create_return(p)
            \/ join_snapshot(p)
            \/ join_fanout(p)
            \/ sig_register(p)
            \/ sig_unregister(p)
            \/ sig_fan_left(p)

SpecList == CreateInit /\ [][NextList]_vars

\* The two lobbies, when one client is slow.  Either alice's messages stream on
\* LOBBYAAA has not been polled while bob sent BROADCAST_CAPACITY + 1 messages,
\* or a StreamSessionUpdates stream, or a StreamGlobalMembers stream, has sent
\* its initial event and has not been polled while NOTIFY_CAPACITY + 2 values
\* were published on its notifier.  One more call publishes on one of the three
\* channels.  An invocation that has started and a stream task that can take a
\* step are scheduled until they return.
SlowStream == FirstCall
Publisher == FirstCall + 1
SlowOps == {"StreamMessages", "StreamSessionUpdates", "StreamGlobalMembers"}

BacklogInit ==
    \E slow \in SlowOps :
        /\ sessions = [s \in SessionIds |->
                         CASE s = GLOBAL_SESSION_ID -> GlobalObj
                           [] s = "LOBBYAAA" -> 1
                           [] OTHER -> 2]
        /\ heap = [o \in Objs |->
                     CASE o = GlobalObj -> SessionData(GLOBAL_SESSION_ID, FALSE, 0, NoUser)
                       [] o = 1 -> [SessionData("LOBBYAAA", TRUE, 2, "alice") EXCEPT
                                       !.members = {"alice"},
                                       !.tx = IF slow = "StreamMessages"
                                              THEN [i \in 1..(BROADCAST_CAPACITY + 1) |->
                                                      ChatMessage("bob", "hi")]
                                              ELSE <<>>]
                       [] o = 2 -> [SessionData("LOBBYBBB", FALSE, 3, "bob") EXCEPT
                                       !.members = {"bob"}]
                       [] OTHER -> NoData]
        /\ user_session_index = [u \in Users |->
                                   CASE u = "alice" -> "LOBBYAAA"
                                     [] u = "bob" -> "LOBBYBBB"
                                     [] OTHER -> NoSession]
        /\ global_stream_refs = [u \in Users |-> 0]
        /\ stateLock = 0
        /\ procs = [p \in ProcIds |->
                      CASE p < FirstCall -> [FreeProc EXCEPT !.pc = "done"]
                        [] p = SlowStream /\ slow = "StreamMessages" ->
                             [FreeProc EXCEPT !.op = slow, !.user = "alice",
                                              !.sid = "LOBBYAAA", !.pc = "msg_open",
                                              !.obj = 1, !.since = 1, !.next = 1]
                        [] p = SlowStream /\ slow = "StreamSessionUpdates" ->
                             [FreeProc EXCEPT !.op = slow, !.pc = "upd_open",
                                              !.since = 1, !.next = 1]
                        [] p = SlowStream /\ slow = "StreamGlobalMembers" ->
                             [FreeProc EXCEPT !.op = slow, !.pc = "gm_open",
                                              !.since = 1, !.next = 1]
                        [] OTHER -> FreeProc]
        /\ out = [p \in ProcIds |->
                    CASE p = SlowStream /\ slow = "StreamSessionUpdates" ->
                           <<SessionsUpdatedEvent(<<SessionInfo(1, 1)>>)>>
                      [] p = SlowStream /\ slow = "StreamGlobalMembers" ->
                           <<GlobalMembersEvent({})>>
                      [] OTHER -> <<>>]
        /\ session_update_tx = IF slow = "StreamSessionUpdates" THEN NOTIFY_CAPACITY + 2 ELSE 0
        /\ global_members_tx = IF slow = "StreamGlobalMembers" THEN NOTIFY_CAPACITY + 2 ELSE 0
        /\ recording = TRUE /\ app = AppNew /\ locks = NoGuards

LagStep(p) ==
    \/ chat_send(p)
    \/ join_index_remove(p)
    \/ join_target_lock(p)
    \/ join_index_insert(p)
    \/ join_snapshot(p)
    \/ join_fanout(p)
    \/ msg_forward(p)
    \/ upd_recv(p)
    \/ upd_lock(p)
    \/ pub_sample(p)
    \/ upd_emit(p)
    \/ gm_recv(p)
    \/ gm_read(p)

NextLag ==
    \/ \E p \in {Publisher} :
            \/ handle_send_message(p, "bob", "LOBBYAAA", "yo")
            \/ handle_join_session(p, "carol", "LOBBYAAA")
            \/ handle_stream_messages(p, "carol", GLOBAL_SESSION_ID)
    \/ \E p \in ProcIds : LagStep(p)

SpecLag ==
    /\ BacklogInit
    /\ [][NextLag]_vars
    /\ \A p \in ProcIds : WF_vars(LagStep(p))

\* A full lobby: alice created LOBBYAAA (public, max_members 3), bob and carol
\* joined it, and all three opened their signal streams.  The streams close, in
\* any order, and nobody calls anything else.
CarolStream == 6
FullLobbyStreams == {AliceStream, BobStream, CarolStream}

StreamOwner(p) ==
    CASE p = AliceStream -> "alice"
      [] p = BobStream -> "bob"
      [] OTHER -> "carol"

FullLobbyInit ==
    /\ sessions = [s \in SessionIds |->
                     CASE s = GLOBAL_SESSION_ID -> GlobalObj
                       [] s = LobbyCode -> LobbyObj
                       [] OTHER -> NoObj]
    /\ heap = [o \in Objs |->
                 CASE o = GlobalObj -> SessionData(GLOBAL_SESSION_ID, FALSE, 0, NoUser)
                   [] o = LobbyObj ->
                        [SessionData(LobbyCode, TRUE, 3, "alice") EXCEPT
                            !.members = {"alice", "bob", "carol"},
                            !.signal_senders = [u \in Users |->
                                CASE u = "alice" -> AliceStream
                                  [] u = "bob" -> BobStream
                                  [] OTHER -> CarolStream]]
                   [] OTHER -> NoData]
    /\ user_session_index = [u \in Users |-> LobbyCode]
    /\ global_stream_refs = [u \in Users |-> 0]
    /\ stateLock = 0
    /\ procs = [p \in ProcIds |->
                  CASE p \in FullLobbyStreams ->
                         [FreeProc EXCEPT !.op = "StreamSignals", !.user = StreamOwner(p),
                                          !.sid = LobbyCode, !.pc = "sig_open"]
                    [] p < CarolStream -> [FreeProc EXCEPT !.pc = "done"]
                    [] OTHER -> FreeProc]
    /\ out = [p \in ProcIds |-> <<>>]
    /\ session_update_tx = 0
    /\ global_members_tx = 0
    /\ recording = TRUE /\ app = AppNew /\ locks = NoGuards

NextHostOrder ==
    \E p \in ProcIds :
            \/ sig_close(p)
            \/ sig_unregister(p)
            \/ leave_gate(p)
            \/ leave_lock(p)
            \/ leave_reap(p)
            \/ sig_fan_left(p)
            \/ sig_fan_host(p)

SpecHostOrder == FullLobbyInit /\ [][NextHostOrder]_vars

\* The two lobbies, when carol moves between them by JoinSession while she opens
\* signal streams in LOBBYAAA and bob in LOBBYBBB, and the streams close.  Nobody
\* calls LeaveSession.
NextStaleClose ==
    \/ \E p \in FirstCall..MaxOps :
            \/ \E s \in LobbyCodes : handle_join_session(p, "carol", s)
            \/ \E c \in {<<"bob", "LOBBYBBB">>, <<"carol", "LOBBYAAA">>} :
                    handle_stream_signals(p, c[1], c[2])
    \/ \E p \in ProcIds :
            \/ sig_register(p)
            \/ sig_close(p)
            \/ sig_unregister(p)
            \/ sig_fan_left(p)
            \/ sig_fan_host(p)
            \/ InnerStep(p)
            \/ join_snapshot(p)
            \/ join_fanout(p)

SpecStaleClose == TwoLobbiesInit /\ [][NextStaleClose]_vars

\* The client, when its commands reset and cancel streams of every kind, two of
\* them at a time, until MaxChannels channels have been made.
NextClient ==
    \E c \in Commands :
        \/ \E kind \in Kinds : reset_stream(c, kind)
        \/ reset_install(c)
        \/ spawn_stream_task(c)
        \/ spawn_fails(c)
        \/ \E kind \in Kinds : cancel_stream(c, kind)
        \/ cancel_all_streams(c)
        \/ cancel_next(c)

SpecClient == Init /\ [][NextClient]_vars

\* The lobby, with guards and worker threads: its signal streams close, bob and
\* carol call JoinSession for the lobby and for `__global__`, carol opens a signal
\* stream and alice sends bob an offer.
NextLocks ==
    \E p \in ProcIds :
        \/ worker_polls(p)
        \/ worker_yields(p)
        \/ registry_get(p)
        \/ mutex_lock(p)
        \/ mutex_wait(p)
        \/ mutex_wakes(p)
        \/ mutex_unlock(p)
        \/ ref_drop(p)
        \/ \E u \in {"bob", "carol"}, s \in {LobbyCode, GLOBAL_SESSION_ID} :
                call_join_session(p, u, s)
        \/ call_send_signal(p, Signal("SdpOffer", "alice", "bob", LobbyCode, "sdp"))
        \/ call_stream_signals(p, "carol", LobbyCode)
        \/ stream_closes(p)
        \/ old_section(p)
        \/ target_section(p)
        \/ leave_section(p)
        \/ unregister_section(p)
        \/ register_section(p)
        \/ send_section(p)
        \/ old_removed(p)
        \/ session_removed(p)
        \/ index_inserted(p)
        \/ unguarded_step(p)

SpecLocks == LobbyRecordedInit /\ [][NextLocks]_vars

\* ----------------------------------------------------------- properties
\* No handler and no stream cleanup is between its first and its last step.
Quiescent == \A p \in ProcIds : ~Active(p)

\* The keys of the registry, and the members of the session under a key.
Present == {s \in SessionIds : sessions[s] # NoObj}
Lobbies == Present \ {GLOBAL_SESSION_ID}
Members(s) == heap[sessions[s]].members

\* The finished invocation p was `op` by `username` on `session_id`.
Called(p, op, username, session_id) ==
    /\ procs[p].pc = "done"
    /\ procs[p].op = op
    /\ procs[p].user = username
    /\ procs[p].sid = session_id

\* C1: at an RPC boundary, for every user u and every session s of the registry,
\* u is in sessions[s].members if and only if user_session_index[u] = s.
IndexMembersConsistent ==
    Quiescent =>
        \A u \in Users, s \in Present : (u \in Members(s)) <=> (user_session_index[u] = s)

JoinRace ==
    /\ \E u \in {"bob", "carol"} :
          /\ Called(FirstCall, "JoinSession", u, "LOBBYAAA")
          /\ \E v \in {"bob", "carol"} \ {u} : Called(SecondCall, "JoinSession", v, "LOBBYAAA")
    /\ \A p \in ProcIds : p > SecondCall => procs[p].pc = "free"

Delivered(q, kind, payload) ==
    Cardinality({i \in 1..Len(out[q]) : out[q][i].kind = kind /\ out[q][i].payload = payload})

\* C5: in one period of membership, whatever the interleaving of LeaveSession
\* calls and of the implicit leave of a closing signal stream, a remaining
\* member's signal stream receives at most one MemberLeft for a user and at most
\* one HostChanged, and every LeaveSession call returns OK.
OneLeaveFanout ==
    /\ \A q \in ProcIds, u \in Users :
          /\ Delivered(q, "MemberLeft", u) <= 1
          /\ Delivered(q, "HostChanged", u) <= 1
    /\ \A p \in ProcIds :
          procs[p].pc = "done" /\ procs[p].op = "LeaveSession" => procs[p].result = "OK"

\* alice is a member of the lobby and her signal stream, open from the start, is
\* the one registered in it.
AliceListening ==
    /\ procs[AliceStream].pc = "sig_open"
    /\ heap[LobbyObj].signal_senders["alice"] = AliceStream
    /\ "alice" \in heap[LobbyObj].members

\* C6: when the signal stream of bob, a member of the lobby, closes and nobody
\* calls LeaveSession, then eventually bob is in neither the lobby's members nor
\* indexed to the lobby, and the member alice, listening on her signal stream,
\* has received MemberLeft with payload bob.
StreamDeathLeaves ==
    (procs[BobStream].pc = "sig_unregister" /\ "bob" \in heap[LobbyObj].members)
        ~> /\ "bob" \notin heap[LobbyObj].members
           /\ user_session_index["bob"] # LobbyCode
           /\ AliceListening => Delivered(AliceStream, "MemberLeft", "bob") >= 1

\* C7: at an RPC boundary no session other than `__global__` with an empty members
\* set is in the registry, and `__global__` is in the registry in every state.
EmptySessionsReaped ==
    /\ sessions[GLOBAL_SESSION_ID] # NoObj
    /\ Quiescent => \A s \in Lobbies : Members(s) # {}

\* A session was created, lost its last member and is no longer in the registry,
\* while `__global__` has no member.
SessionWasReaped ==
    /\ Quiescent
    /\ \E o \in Objs \ {GlobalObj} :
          heap[o].id # "" /\ heap[o].members = {} /\ sessions[heap[o].id] = NoObj
    /\ heap[GlobalObj].members = {}

\* C8: at an RPC boundary every session other than `__global__` whose members set
\* is not empty has its host among its members.
HostPresent ==
    Quiescent =>
        \A s \in Lobbies : Members(s) # {} => heap[sessions[s]].host \in Members(s)

\* C9: at an RPC boundary a user is in the members of `__global__` if and only if
\* the user's count of open global messages streams is at least one.
GlobalRefCount ==
    Quiescent =>
        \A u \in Users : (u \in Members(GLOBAL_SESSION_ID)) <=> (global_stream_refs[u] >= 1)

\* The signal stream q, open from the start, is the one registered for its user
\* in the lobby.
Listening(q) ==
    /\ procs[q].pc = "sig_open"
    /\ sessions[LobbyCode] = LobbyObj
    /\ heap[LobbyObj].signal_senders[procs[q].user] = q

\* The finished SendSignal calls that carried the signal sg.
Sent(sg) == {p \in ProcIds : procs[p].pc = "done" /\ procs[p].op = "SendSignal" /\ procs[p].signal = sg}

Subscribed(q) == procs[q].pc = "msg_open" /\ ~procs[q].lagged

\* What was published to the record of stream q from its subscription up to its cursor.
Received(q) == SubSeq(heap[procs[q].obj].tx, procs[q].since, procs[q].next - 1)

\* The SendMessage calls that returned OK and whose message the channel of the
\* record o kept.
Published(o) ==
    {p \in ProcIds : /\ procs[p].pc = "done" /\ procs[p].op = "SendMessage"
                     /\ procs[p].result = "OK" /\ procs[p].sid = heap[o].id
                     /\ procs[p].next > 0}

\* A message is delivered exactly as published, once, in publish order.
ChatInOrder ==
    /\ \A q \in ProcIds : Subscribed(q) => out[q] = Received(q)
    /\ \A o \in Objs :
          /\ \A p \in Published(o) :
                /\ procs[p].next <= Len(heap[o].tx)
                /\ heap[o].tx[procs[p].next] = procs[p].msg
                /\ procs[p].msg.username = procs[p].user
          /\ \A p1, p2 \in Published(o) : p1 # p2 => procs[p1].next # procs[p2].next

\* C11: every SendMessage(S, u, c) that returns OK produces one ChatMessage with
\* username u and content c on the messages stream of every subscriber of S
\* that has not lagged and stays connected, and the messages published to S are
\* received by such a subscriber in the order they were published.
ChatRoundTrip ==
    /\ []ChatInOrder
    /\ []<>(\A q \in ProcIds :
                Subscribed(q) => procs[q].next > Len(heap[procs[q].obj].tx))

\* carol's messages stream on LOBBYAAA has received alice's "hi" and then bob's
\* "yo", the two SendMessage calls made after she subscribed.
ChatReceived ==
    /\ \E q \in ProcIds :
          /\ Subscribed(q) /\ procs[q].user = "carol" /\ procs[q].sid = "LOBBYAAA"
          /\ out[q] = <<ChatMessage("alice", "hi"), ChatMessage("bob", "yo")>>
    /\ \E p1, p2 \in ProcIds :
          /\ Called(p1, "SendMessage", "alice", "LOBBYAAA") /\ procs[p1].result = "OK"
          /\ Called(p2, "SendMessage", "bob", "LOBBYAAA") /\ procs[p2].result = "OK"
          /\ procs[p1].next = 1 /\ procs[p2].next = 2

\* Where the signals of `kind` are in what stream q has delivered.
SignalsOf(q, kind) == {i \in 1..Len(out[q]) : out[q][i].kind = kind}

\* bob made no call and is a member of the lobby, listening on his signal stream.
BobStayed ==
    /\ Listening(BobStream)
    /\ "bob" \in heap[LobbyObj].members
    /\ \A q \in ProcIds \ {BobStream} : procs[q].user # "bob"

\* C12: when alice, a member and the host of the lobby {alice, bob} at her call,
\* has called LeaveSession, the call returned OK, bob's signal stream has
\* received one MemberLeft with payload alice and, after it, one HostChanged
\* whose payload is the remaining member bob; the lobby's host is that payload
\* and its members are {bob}.
HostLeaveMigrates ==
    \A p \in ProcIds :
        Called(p, "LeaveSession", "alice", LobbyCode) /\ procs[p].was_host /\ BobStayed =>
            /\ procs[p].result = "OK"
            /\ Delivered(BobStream, "MemberLeft", "alice") = 1
            /\ Cardinality(SignalsOf(BobStream, "HostChanged")) = 1
            /\ \A i \in SignalsOf(BobStream, "HostChanged") :
                  /\ out[BobStream][i].payload = "bob"
                  /\ \E j \in SignalsOf(BobStream, "MemberLeft") : j < i
            /\ heap[LobbyObj].host = "bob"
            /\ heap[LobbyObj].members = {"bob"}

\* C13: when bob, a member of the lobby, has successfully called JoinSession for
\* another session, alice, who stays in the lobby with her signal stream open,
\* has received MemberLeft with payload bob, bob is not in the lobby's members
\* and user_session_index[bob] is the session he joined.
AutoLeaveNotifies ==
    \A p \in ProcIds, s \in SessionIds \ {LobbyCode} :
        Called(p, "JoinSession", "bob", s) /\ procs[p].result = "OK" /\ AliceListening =>
            /\ Delivered(AliceStream, "MemberLeft", "bob") >= 1
            /\ "bob" \notin heap[LobbyObj].members
            /\ user_session_index["bob"] = s

\* The step in which invocation p starts as JoinSession on a session of the
\* registry that has max_members > 0 and at least max_members members.
JoinsFull(p) ==
    /\ procs[p].pc = "free"
    /\ procs'[p].op = "JoinSession"
    /\ sessions[procs'[p].sid] # NoObj
    /\ heap[sessions[procs'[p].sid]].max_members > 0
    /\ Cardinality(heap[sessions[procs'[p].sid]].members)
          >= heap[sessions[procs'[p].sid]].max_members

\* C14: a JoinSession on a session with max_members > 0 and |members| >=
\* max_members returns ResourceExhausted and changes neither a session (members,
\* host, signal_senders) nor the registry nor user_session_index, and delivers
\* nothing to a signal stream.
FullSessionRejected ==
    [][\A p \in ProcIds :
          JoinsFull(p) =>
              /\ procs'[p].pc = "done"
              /\ procs'[p].result = "ResourceExhausted"
              /\ UNCHANGED <<sessions, heap, user_session_index, global_stream_refs, out>>]_vars

\* carol's JoinSession of LOBBYAAA (max_members 2) was rejected after bob's was
\* accepted, and carol, who was in LOBBYBBB by then, still is.
FullJoinRejected ==
    /\ \E p, q \in ProcIds :
          /\ Called(q, "JoinSession", "carol", "LOBBYBBB") /\ procs[q].result = "OK"
          /\ Called(p, "JoinSession", "carol", "LOBBYAAA")
          /\ procs[p].result = "ResourceExhausted"
    /\ Members("LOBBYAAA") = {"alice", "bob"}
    /\ user_session_index["carol"] = "LOBBYBBB"
    /\ "carol" \in Members("LOBBYBBB")

\* The step in which the JoinSession p reads its response from the session.
TakesSnapshot(p) == procs[p].pc = "join_snapshot" /\ procs'[p].pc = "join_fanout"

\* The step in which join_session_inner, called by the JoinSession p, has
\* inserted the user into the session's members.
Inserts(p) == procs[p].pc = "join_target_lock" /\ procs'[p].pc = "join_index_insert"

\* C15: the existing_peers of a JoinSession(S, u) are, as a set, S.members without
\* u and its host is S's host, both as they are in the one state the handler
\* reads, which it reads after u was inserted; the response of a successful
\* JoinSession carries them, and u is not among its existing_peers.
JoinResponse ==
    /\ [][\A p \in ProcIds :
            /\ Inserts(p) => procs[p].user \in heap'[sessions[procs[p].sid]].members
            /\ procs'[p].pc = "join_snapshot" /\ procs[p].pc # "join_snapshot" =>
                  procs[p].pc = "join_index_insert"
            /\ procs'[p].pc = "join_index_insert" /\ procs[p].pc # "join_index_insert" =>
                  Inserts(p)]_vars
    /\ [][\A p \in ProcIds :
            TakesSnapshot(p) =>
                /\ procs'[p].existing_peers = Members(procs[p].sid) \ {procs[p].user}
                /\ procs'[p].host = heap[sessions[procs[p].sid]].host]_vars
    /\ [][\A p \in ProcIds :
            procs[p].pc = "join_fanout" /\ procs'[p].pc = "done" =>
                /\ procs'[p].existing_peers = procs[p].existing_peers
                /\ procs'[p].host = procs[p].host]_vars
    /\ [](\A p \in ProcIds :
            procs[p].op = "JoinSession" => procs[p].user \notin procs[p].existing_peers)

\* carol's JoinSession of LOBBYBBB returned existing_peers {alice, bob} and host
\* bob: alice had joined bob's session before her.
PeersReturned ==
    \E p \in ProcIds :
        /\ Called(p, "JoinSession", "carol", "LOBBYBBB") /\ procs[p].result = "OK"
        /\ procs[p].existing_peers = {"alice", "bob"}
        /\ procs[p].host = "bob"

\* The JoinSession calls of user u for the lobby that returned OK.
Joined(u) == {p \in ProcIds : Called(p, "JoinSession", u, LobbyCode) /\ procs[p].result = "OK"}

\* C16: a successful JoinSession(S, u) delivers MemberJoined with payload u to the
\* signal streams registered in S at the join, once each (here the streams of
\* alice and bob, open and registered in the lobby from the start, for a join of
\* carol); no signal stream receives a MemberJoined whose payload is its own
\* user, and none receives a MemberJoined of a session other than its own.
MemberJoinedFanout ==
    /\ \A q \in {AliceStream, BobStream} :
          Listening(q) => Delivered(q, "MemberJoined", "carol") = Cardinality(Joined("carol"))
    /\ \A q \in ProcIds : \A i \in SignalsOf(q, "MemberJoined") :
          /\ out[q][i].payload # procs[q].user
          /\ out[q][i].session_id = procs[q].sid
          /\ out[q][i].from_user = out[q][i].payload /\ out[q][i].to_user = ""

\* min(max(requested, 2), 16)
Clamped(requested) ==
    IF requested < SESSION_MIN_MEMBERS THEN SESSION_MIN_MEMBERS
    ELSE IF requested > SESSION_MAX_MEMBERS THEN SESSION_MAX_MEMBERS
    ELSE requested

\* C17: for every requested max_members, CreateSession stores and returns
\* min(max(requested, 2), 16): every session created has 2 <= max_members <= 16
\* and the response carries the stored value.
CapacityClamped ==
    /\ \A o \in Objs \ {GlobalObj} :
          heap[o].id # "" =>
              /\ heap[o].max_members >= SESSION_MIN_MEMBERS
              /\ heap[o].max_members <= SESSION_MAX_MEMBERS
    /\ \A p \in ProcIds :
          procs[p].pc = "done" /\ procs[p].op = "CreateSession" /\ procs[p].result = "OK" =>
              \E o \in Objs \ {GlobalObj} :
                  /\ heap[o].id = procs[p].sid
                  /\ heap[o].max_members = procs[p].max_members
                  /\ procs[p].max_members = Clamped(procs[p].requested)

\* A step of the task of a messages stream p of a session other than `__global__`,
\* from the stream's being open on: forwarding, or the cleanup after its close.
MessagesStreamStep(p) ==
    /\ procs[p].op = "StreamMessages"
    /\ procs[p].sid # GLOBAL_SESSION_ID
    /\ procs[p].pc # "free"
    /\ procs'[p] # procs[p]

\* C18: the close of a messages stream of a session other than `__global__`
\* changes no session's members, host or signal_senders, neither the registry
\* nor user_session_index, and delivers nothing to a signal stream.
MessagesCloseNeutral ==
    [][\A p \in ProcIds :
          MessagesStreamStep(p) =>
              /\ UNCHANGED <<sessions, user_session_index>>
              /\ \A o \in Objs :
                    /\ heap'[o].members = heap[o].members
                    /\ heap'[o].host = heap[o].host
                    /\ heap'[o].signal_senders = heap[o].signal_senders
              /\ \A q \in ProcIds \ {p} : out'[q] = out[q]]_vars

\* The pairs (u, s) for which user_session_index[u] is not s in the two lobbies.
Stranger(u, s) == ~(u = "alice" /\ s = "LOBBYAAA") /\ ~(u = "bob" /\ s = "LOBBYBBB")

\* A step of the LeaveSession call p, its first included.
LeaveSessionStep(p) == procs'[p].op = "LeaveSession" /\ procs'[p] # procs[p]

\* C19: a LeaveSession(s, u) made while user_session_index[u] is not s (u is in
\* another session or in none, or s is not in the registry) returns OK, changes
\* no session, neither the registry nor the index, and delivers no signal.
UnknownLeaverNoop ==
    /\ [](\A u \in Users, s \in SessionIds : Stranger(u, s) => user_session_index[u] # s)
    /\ [][\A p \in ProcIds :
            LeaveSessionStep(p) /\ Stranger(procs'[p].user, procs'[p].sid) =>
                /\ UNCHANGED <<sessions, heap, user_session_index, global_stream_refs, out>>
                /\ procs'[p].pc = "done" => procs'[p].result = "OK"]_vars

\* A step of the SendSignal call p, its first included.
SendSignalStep(p) == procs'[p].op = "SendSignal" /\ procs'[p] # procs[p]

\* The pipe that the SendSignal call p is about to send on has no receiver: none
\* was registered for to_user, or its stream has left its loop.
NoReceiver(p) == procs[p].tx = NoPipe \/ procs[procs[p].tx].pc # "sig_open"

\* C20: SendSignal returns OK and changes no server state; it delivers nothing
\* when the signal's session is not in the registry, when to_user has no pipe
\* registered in that session, and when the pipe's receiver has closed.
SendSignalUnreachable ==
    [][\A p \in ProcIds :
          SendSignalStep(p) =>
              /\ UNCHANGED <<sessions, heap, user_session_index, global_stream_refs>>
              /\ procs'[p].pc = "done" => procs'[p].result = "OK"
              /\ procs[p].pc = "free" /\ sessions[procs'[p].sid] = NoObj =>
                    procs'[p].pc = "done" /\ UNCHANGED out
              /\ procs[p].pc = "send_lock" =>
                    /\ UNCHANGED out
                    /\ heap[procs[p].obj].signal_senders[procs[p].signal.to_user] = NoPipe
                          => procs'[p].tx = NoPipe
              /\ procs[p].pc = "send_tx" /\ NoReceiver(p) =>
                    procs'[p].pc = "done" /\ UNCHANGED out]_vars

\* A SendSignal for a session that is not in the registry and one for bob, whose
\* signal stream has closed, both returned OK; alice is listening and no stream
\* has received anything.
SignalsDropped ==
    /\ \E p1, p2 \in ProcIds :
          /\ procs[p1].pc = "done" /\ procs[p1].op = "SendSignal"
          /\ procs[p1].signal.session_id = "LOBBYBBB" /\ procs[p1].result = "OK"
          /\ procs[p2].pc = "done" /\ procs[p2].op = "SendSignal"
          /\ procs[p2].signal.session_id = LobbyCode /\ procs[p2].signal.to_user = "bob"
          /\ procs[p2].result = "OK"
    /\ procs[BobStream].pc # "sig_open"
    /\ Listening(AliceStream)
    /\ \A q \in ProcIds : out[q] = <<>>

\* The step in which invocation p starts as one of the calls that look their
\* session up, for a session id that is not in the registry.
CallsMissing(p) ==
    /\ procs[p].pc = "free"
    /\ procs'[p].op \in {"SendMessage", "JoinSession", "GetMembers", "StreamSignals"}
    /\ sessions[procs'[p].sid] = NoObj

\* C21: SendMessage, JoinSession, GetMembers and StreamSignals called with a
\* session id that is not in the registry return NotFound and change nothing: no
\* signal pipe is registered, no chat message is published, no membership or
\* index entry changes, nothing is delivered or notified.
NotFoundOnMissing ==
    [][\A p \in ProcIds :
          CallsMissing(p) =>
              /\ procs'[p].pc = "done"
              /\ procs'[p].result = "NotFound"
              /\ UNCHANGED <<sessions, heap, user_session_index, global_stream_refs,
                             stateLock, out, session_update_tx, global_members_tx>>]_vars

\* The four calls were made for LOBBYAAA, which nobody had created, and returned
\* NotFound; the server is as it was constructed.
MissingReported ==
    /\ \A op \in {"SendMessage", "JoinSession", "GetMembers", "StreamSignals"} :
          \E p \in ProcIds :
              /\ procs[p].pc = "done" /\ procs[p].op = op /\ procs[p].sid = "LOBBYAAA"
              /\ procs[p].result = "NotFound"
    /\ sessions["LOBBYAAA"] = NoObj
    /\ \A o \in Objs \ {GlobalObj} : heap[o] = NoData
    /\ heap[GlobalObj] = SessionData(GLOBAL_SESSION_ID, FALSE, 0, NoUser)
    /\ \A u \in Users : user_session_index[u] = NoSession

\* A record with this id is a public session.
PublicId(session_id) == \E o \in Objs : heap[o].id = session_id /\ heap[o].is_public

\* The step after which the handler or cleanup task p, having changed the public
\* session list, sends nothing more to session_update_tx: the release of the lock
\* of a CreateSession of a public session, of a JoinSession into a public session
\* or out of one (its auto-leave), of a LeaveSession of a public session whose
\* leave removed the member, and the fan-out of the implicit leave of a signal
\* stream of a public session.
LastChanceToNotify(p) ==
    \/ /\ procs[p].pc = "create_return"
       /\ PublicId(procs[p].sid)
    \/ /\ procs[p].pc = "join_snapshot" /\ procs'[p].pc = "join_fanout"
       /\ PublicId(procs[p].sid) \/ PublicId(procs[p].old_id)
    \/ /\ procs[p].pc = "leave_migrate"
       /\ PublicId(procs[p].sid)
    \/ /\ procs[p].pc = "sig_fan_left"
       /\ PublicId(procs[p].sid)

\* C22: while a client is subscribed to session-list-changed, every creation or
\* destruction of a public session and every change of a public session's
\* members is followed by a publication, whichever path made it: CreateSession,
\* JoinSession, LeaveSession, the implicit leave of a signal-stream close, and
\* the auto-leave of a public session by a JoinSession into another session.
SessionListNotified ==
    [][\A p \in ProcIds :
          LastChanceToNotify(p) /\ UpdateReceivers # {} /\ procs'[p] # procs[p] =>
              session_update_tx' = session_update_tx + 1]_vars

\* C23: while a client is subscribed to global-members-changed, a step publishes
\* on it if and only if the step changes `__global__`.members: the open of a
\* user's first global messages stream and the close of the last one publish,
\* the open of a second and the close of one of two do not, and nothing else
\* changes the members.
GlobalMembersNotified ==
    [][MembersReceivers # {} =>
          /\ global_members_tx' \in {global_members_tx, global_members_tx + 1}
          /\ (global_members_tx' = global_members_tx + 1)
                <=> (heap'[GlobalObj].members # heap[GlobalObj].members)]_vars

\* The global-members stream q is open, its receiver never lagged and it has
\* received every value published since it subscribed.
CaughtUp(q) ==
    /\ procs[q].pc = "gm_open"
    /\ ~procs[q].lagged
    /\ procs[q].next > global_members_tx

\* C24: for a StreamGlobalMembers stream whose client stays connected and whose
\* receiver does not lag, once the changes of `__global__`.members have stopped
\* (no call or cleanup is in progress) and the stream has received what was
\* published, the last GlobalMembersEvent it emitted carries exactly the
\* current `__global__`.members.
NoMissedPresence ==
    Quiescent =>
        \A q \in ProcIds :
            CaughtUp(q) => out[q][Len(out[q])] = GlobalMembersEvent(GlobalMembers)

\* The step in which public_sessions, called by p, iterates the registry.
Collects(p) == procs[p].pc \in {"free", "upd_lock"} /\ procs'[p].pc = "pub_sample"

\* The step in which public_sessions, called by p, samples one session.
Samples(p) ==
    /\ procs[p].pc = "pub_sample" /\ procs'[p].pc = "pub_sample"
    /\ procs'[p] # procs[p]

\* The step in which p returns or emits the list that public_sessions built.
Delivers(p) == procs[p].pc = "pub_sample" /\ procs'[p].pc \in {"done", "upd_open"}

\* The lists that a ListSessions call returned or a StreamSessionUpdates stream emitted.
Snapshots ==
    {procs[p].infos : p \in {q \in ProcIds : procs[q].pc = "done" /\ procs[q].op = "ListSessions"
                                              /\ procs[q].result = "OK"}}
    \cup UNION {{out[p][i].sessions : i \in 1..Len(out[p])} :
                   p \in {q \in ProcIds : procs[q].op = "StreamSessionUpdates"}}

\* C25: the list that ListSessions returns and every event that
\* StreamSessionUpdates emits has exactly one entry for every session that was in
\* the registry with is_public = true and an id other than `__global__` when the
\* registry was read, none for a private session or for `__global__`, and each
\* entry's member_count is the size of the session's members set when that
\* session was sampled.
PublicSnapshot ==
    /\ [][\A p \in ProcIds :
            /\ Collects(p) =>
                  /\ procs'[p].infos = <<>>
                  /\ procs'[p].candidates =
                        {sessions[s] : s \in {x \in Lobbies : heap[sessions[x]].is_public}}
            /\ Samples(p) =>
                  \E o \in procs[p].candidates :
                      /\ procs'[p].candidates = procs[p].candidates \ {o}
                      /\ procs'[p].infos = Append(procs[p].infos,
                            [id |-> heap[o].id, name |-> heap[o].id,
                             member_count |-> Cardinality(heap[o].members),
                             is_public |-> TRUE, max_members |-> heap[o].max_members])
            /\ Delivers(p) =>
                  /\ procs[p].candidates = {}
                  /\ procs[p].op = "ListSessions" => procs'[p].infos = procs[p].infos
                  /\ procs[p].op = "StreamSessionUpdates" =>
                        out'[p] = Append(out[p], [sessions |-> procs[p].infos])]_vars
    /\ [](\A list \in Snapshots :
            /\ \A i \in 1..Len(list) : list[i].is_public /\ list[i].id \in LobbyCodes
            /\ \A i, j \in 1..Len(list) : list[i].id = list[j].id => i = j)

\* ListSessions returned one entry, the public session alice created, with the
\* member_count 2 it had after bob joined, while carol's private session was in
\* the registry.
PublicListed ==
    \E p \in ProcIds, o1, o2 \in Objs :
        /\ procs[p].pc = "done" /\ procs[p].op = "ListSessions" /\ procs[p].result = "OK"
        /\ heap[o1].is_public /\ heap[o1].members = {"alice", "bob"}
        /\ sessions[heap[o1].id] = o1
        /\ heap[o2].host = "carol" /\ ~heap[o2].is_public /\ sessions[heap[o2].id] = o2
        /\ procs[p].infos = <<SessionInfo(o1, 2)>>

\* The slow stream has nothing left to receive and its client has been sent
\* what the channel held from the receiver's position on: every chat message
\* from there to the newest one, or, once the publisher has returned, an event
\* that shows the present listing or the present members of "__global__".
StreamOpen(q) == procs[q].pc \in {"msg_open", "upd_open", "gm_open"}

Served(q) ==
    /\ StreamOpen(q)
    /\ procs[q].op = "StreamMessages" =>
          LET tx == heap[procs[q].obj].tx
              n == Len(out[q]) IN
          /\ procs[q].next = Len(tx) + 1
          /\ n <= Len(tx)
          /\ out[q] = SubSeq(tx, Len(tx) - n + 1, Len(tx))
    /\ procs[q].op = "StreamSessionUpdates" =>
          /\ procs[q].next = session_update_tx + 1
          /\ ~Active(Publisher) =>
                out[q][Len(out[q])] =
                    SessionsUpdatedEvent(<<SessionInfo(1, Cardinality(heap[1].members))>>)
    /\ procs[q].op = "StreamGlobalMembers" =>
          /\ procs[q].next = global_members_tx + 1
          /\ ~Active(Publisher) =>
                out[q][Len(out[q])] = GlobalMembersEvent(GlobalMembers)

\* C26: Lag tolerance: a StreamMessages, StreamSessionUpdates or
\* StreamGlobalMembers task whose receiver reports that it lagged stays in its
\* loop with the client stream open and nothing sent for the lag; it never
\* returns; and it keeps receiving until the client has been sent everything
\* published since, which happens again and again.
LagTolerated ==
    /\ [][\A q \in ProcIds :
             procs'[q].lagged /\ ~procs[q].lagged =>
                /\ StreamOpen(q)
                /\ procs'[q].pc = procs[q].pc
                /\ out'[q] = out[q]]_vars
    /\ [](procs[SlowStream].pc \notin {"free", "done"})
    /\ []<>(procs[SlowStream].lagged /\ Served(SlowStream))

\* Alice's messages stream lagged behind bob's messages, and the message bob
\* sent afterwards is the last one her client was sent.
LaggedThenDelivered ==
    /\ procs[SlowStream].op = "StreamMessages"
    /\ procs[SlowStream].lagged
    /\ Called(Publisher, "SendMessage", "bob", "LOBBYAAA")
    /\ Len(out[SlowStream]) = BROADCAST_CAPACITY + 1
    /\ out[SlowStream][BROADCAST_CAPACITY + 1] = ChatMessage("bob", "yo")

\* Invocation or cleanup p sends HostChanged in this step.
SendsHostChanged(p) ==
    /\ procs[p].pc \in {"leave_fan_host", "sig_fan_host"}
    /\ procs'[p] # procs[p]

\* C27: HostChanged recipients: the HostChanged sent for a leave names a new
\* host other than the user who left, and no stream that is sent it is a stream
\* of the user who left.
HostChangedRecipients ==
    [][\A p \in ProcIds :
          SendsHostChanged(p) =>
             /\ procs[p].new_host \notin {NoUser, procs[p].user}
             /\ \A q \in ProcIds :
                   out'[q] # out[q] => procs[q].user # procs[p].user]_vars

\* C28: No dangling membership: at rest, every value of user_session_index is
\* the id of a session present in the registry.
NoDanglingMembership ==
    Quiescent =>
        \A u \in Users :
            user_session_index[u] # NoSession => user_session_index[u] \in Present

\* The HostChanged signals stream q was sent, in the order of their delivery.
HostChanges(q) == SelectSeq(out[q], LAMBDA sig : sig.kind = "HostChanged")

\* C29: Fan-out order: at rest, the last HostChanged that an open signal stream
\* of the lobby was sent names the lobby's current host.
LastHostChangedCurrent ==
    Quiescent =>
        \A q \in ProcIds :
            (procs[q].pc = "sig_open" /\ HostChanges(q) # <<>>) =>
                HostChanges(q)[Len(HostChanges(q))].payload = heap[LobbyObj].host

\* The usernames with a registered signal pipe in the session under `s`.
PipeOwners(s) == {u \in Users : heap[sessions[s]].signal_senders[u] # NoPipe}

\* C30: Signal pipes belong to members: at rest, the usernames with a
\* registered signal pipe in a session are among that session's members.
PipesBelongToMembers ==
    Quiescent => \A s \in Present : PipeOwners(s) \subseteq Members(s)

\* Invocation p is a JoinSession of the session its user was indexed to when
\* join_session_inner read the index.
Rejoins(p) ==
    /\ procs[p].op = "JoinSession"
    /\ procs[p].old_id = procs[p].sid

\* C31: Re-join is idempotent: a JoinSession of the session the user is already
\* in succeeds and returns with the session in the registry, the user in its
\* members and the index still naming it, and emits no MemberLeft on the way.
RejoinIdempotent ==
    [][\A p \in ProcIds :
          (Rejoins(p) /\ procs'[p] # procs[p]) =>
             /\ \A q \in ProcIds :
                   out'[q] # out[q] => out'[q][Len(out'[q])].kind # "MemberLeft"
             /\ procs'[p].pc = "done" =>
                   /\ procs'[p].result = "OK"
                   /\ sessions'[procs[p].sid] # NoObj
                   /\ procs[p].user \in heap'[sessions'[procs[p].sid]].members
                   /\ user_session_index'[procs[p].user] = procs[p].sid]_vars

\* The characters [A-Z0-9], the values of a byte, some uuids (constant ones at
\* the ends of the byte range and around the alphabet's length, and two with
\* different bytes), and the characters of "__global__".
UpperAlnum ==
    {"A", "B", "C", "D", "E", "F", "G", "H", "I", "J", "K", "L", "M",
     "N", "O", "P", "Q", "R", "S", "T", "U", "V", "W", "X", "Y", "Z",
     "0", "1", "2", "3", "4", "5", "6", "7", "8", "9"}
Bytes == 0..255
UuidSamples ==
    {[i \in 1..16 |-> v] : v \in {0, 35, 36, 255}}
        \cup {[i \in 1..16 |-> 15 * i + 7], [i \in 1..16 |-> 255 - i]}
GlobalIdChars == <<"_", "_", "g", "l", "o", "b", "a", "l", "_", "_">>

Sends ==
    \/ \E q \in ProcIds : Len(out'[q]) > Len(out[q])
    \/ session_update_tx' # session_update_tx
    \/ global_members_tx' # global_members_tx
    \/ \E o \in DOMAIN heap : Len(heap'[o].tx) > Len(heap[o].tx)

\* The steps that are the critical section of a session's inner mutex.
MutexSections == {"join_old_lock", "join_target_lock", "leave_lock", "send_lock",
                  "sig_register", "sig_unregister"}

\* The step of p runs with the state lock held before it and after it, or is a
\* block that takes the lock, acts and drops it (sessions.rs 120-134; streams.rs
\* 81-98), or is the critical section of a session's mutex.  A step that drops
\* the lock and then publishes (the lock block's value is a clone of the sender)
\* is not one of them.
UnderLock(p) ==
    \/ stateLock = p /\ stateLock' = p
    \/ procs[p].pc = "join_fanout"
    \/ procs[p].op = "StreamMessages" /\ procs[p].sid = GLOBAL_SESSION_ID
          /\ procs[p].pc = "msg_open" /\ procs'[p].pc = "done"
    \/ procs[p].pc \in MutexSections

\* C33: no step publishes on a broadcast channel or sends on a signal pipe or a
\* client stream while its task holds a session's mutex or the state lock.
PublishOutsideLocks ==
    [][\A p \in ProcIds : (procs'[p] # procs[p] /\ Sends) => ~UnderLock(p)]_vars

\* The signal stream q has closed and its cleanup task has not returned.
Closing(q) ==
    /\ procs[q].op = "StreamSignals"
    /\ procs[q].pc \notin {"free", "done", "sig_register", "sig_open"}

\* q2 is a later signal stream of q's user for q's session: it is open and its
\* pipe is the one registered in the session.
Restarted(q, q2) ==
    /\ q2 # q
    /\ procs[q2].op = "StreamSignals" /\ procs[q2].pc = "sig_open"
    /\ procs[q2].user = procs[q].user /\ procs[q2].sid = procs[q].sid
    /\ sessions[procs[q].sid] # NoObj
    /\ heap[sessions[procs[q].sid]].signal_senders[procs[q].user] = q2
    /\ procs[q].user \in heap[sessions[procs[q].sid]].members
    /\ user_session_index[procs[q].user] = procs[q].sid

\* C37: when a user's signal stream for a session closes after the user opened a
\* second one for it, no step of the earlier stream's cleanup unregisters the
\* second stream's pipe, removes the user from the session or from the index, or
\* emits MemberLeft for the user.
RestartKeepsStream ==
    [][\A q, q2 \in ProcIds :
          (Closing(q) /\ Restarted(q, q2) /\ procs'[q] # procs[q]) =>
             /\ sessions'[procs[q].sid] = sessions[procs[q].sid]
             /\ heap'[sessions[procs[q].sid]].signal_senders[procs[q].user] = q2
             /\ procs[q].user \in heap'[sessions[procs[q].sid]].members
             /\ user_session_index'[procs[q].user] = procs[q].sid
             /\ \A s \in ProcIds :
                   Len(out'[s]) > Len(out[s]) =>
                      ~(/\ out'[s][Len(out'[s])].kind = "MemberLeft"
                        /\ out'[s][Len(out'[s])].payload = procs[q].user)]_vars

\* The closed signal stream q is stale: its user is a member of another session
\* than the one the stream was opened for, and the index names that session.
Stale(q, s2) ==
    /\ Closing(q)
    /\ s2 # procs[q].sid
    /\ user_session_index[procs[q].user] = s2
    /\ sessions[s2] # NoObj
    /\ procs[q].user \in heap[sessions[s2]].members

\* C38: no step of the cleanup of a signal stream that user u opened for S1,
\* taken while u is a member of another session S2, removes u from S2 or from
\* the index, changes S2's host, or delivers MemberLeft for u to a stream of S2.
StaleCloseKeepsMember ==
    [][\A q \in ProcIds : \A s2 \in SessionIds :
          (Stale(q, s2) /\ procs'[q] # procs[q]) =>
             /\ sessions'[s2] = sessions[s2]
             /\ procs[q].user \in heap'[sessions[s2]].members
             /\ user_session_index'[procs[q].user] = s2
             /\ heap'[sessions[s2]].host = heap[sessions[s2]].host
             /\ \A s \in ProcIds :
                   (procs[s].sid = s2 /\ Len(out'[s]) > Len(out[s])) =>
                      ~(/\ out'[s][Len(out'[s])].kind = "MemberLeft"
                        /\ out'[s][Len(out'[s])].payload = procs[q].user)]_vars

\* The cleanup of a stale signal stream has returned: its user is still a member
\* of the other session, which has another member listening on a signal stream.
StaleStreamClosed ==
    \E q, s \in ProcIds : \E s2 \in LobbyCodes :
        /\ procs[q].op = "StreamSignals" /\ procs[q].pc = "done"
        /\ procs[q].result = "closed"
        /\ procs[q].sid # s2
        /\ sessions[procs[q].sid] # NoObj
        /\ user_session_index[procs[q].user] = s2
        /\ procs[q].user \in heap[sessions[s2]].members
        /\ procs[s].op = "StreamSignals" /\ procs[s].pc = "sig_open" /\ procs[s].sid = s2
        /\ procs[s].user # procs[q].user
        /\ heap[sessions[s2]].signal_senders[procs[s].user] = s

\* The JoinSession call p has removed its caller's entry from the index
\* (session.rs 120) and has not put one back.
Unindexed(p) ==
    /\ procs[p].op = "JoinSession"
    /\ procs[p].old_id # NoSession
    /\ procs[p].pc \in {"join_old_lock", "join_old_reap", "join_target_lock"}

\* C39: a JoinSession call that returns NotFound or ResourceExhausted has changed
\* nothing: a call that has taken its caller out of user_session_index and out of
\* the previous session does not return one of them.
FailedJoinNoOp ==
    [][\A p \in ProcIds :
          (Unindexed(p) /\ procs'[p].pc = "done") =>
              procs'[p].result \notin {"NotFound", "ResourceExhausted"}]_vars

\* The stream tasks of a kind whose cancel Receiver has not completed.
LiveTasks(kind) ==
    {n \in Channels : /\ app.channels[n].kind = kind
                      /\ app.channels[n].task
                      /\ app.channels[n].state = "open"}

OneSessionLock ==
    /\ [](\A p \in ProcIds : Cardinality(locks.held[p]) <= 1)
    /\ [][\A p \in ProcIds :
             (procs[p].pc = "join_target_lock" /\ locks'.held[p] \ locks.held[p] # {})
                => locks.held[p] = {}]_vars

\* A JoinSession that auto-left the lobby, whose mutex it locked and released,
\* holds the mutex of `__global__`.
JoinHoldsTarget ==
    \E p \in ProcIds :
        /\ procs[p].op = "JoinSession" /\ procs[p].pc = "join_target_lock"
        /\ procs[p].old_id = LobbyCode /\ procs[p].sid = GLOBAL_SESSION_ID
        /\ sessions[LobbyCode] # NoObj
        /\ procs[p].user \notin heap[sessions[LobbyCode]].members
        /\ locks.held[p] = {GlobalObj}

\* C34: no task is suspended in inner.lock().await while it holds a Ref into the
\* session registry.
NoRefAcrossAwait ==
    \A p \in ProcIds :
        (~OnWorker(p) /\ locks.stage[p] \in {"ref", "wait"}) => locks.ref[p] = NoSession

\* A call, a stream cleanup or a polled task has not returned.
InProgress(p) == Active(p) \/ OnWorker(p) \/ locks.stage[p] # ""

\* C40: there is no state in which a call or a cleanup has not returned and no
\* task can take a step.
DeadlockFree == (\E p \in ProcIds : InProgress(p)) => ENABLED NextLocks

====
